---- MODULE Spec2Model ----
(***************************************************************************)
(* MindVault: ingestion pipeline (two routers), embedding warmup latch,    *)
(* intent router and /agent/act endpoint, as state machines.               *)
(*                                                                         *)
(* Texts are sequences of one-character strings.  A Python value that may  *)
(* be None is a sequence of length 0 (None) or 1 (the value).              *)
(***************************************************************************)
EXTENDS Integers, Sequences, FiniteSets, TLC

----------------------------------------------------------------------------
(* Generic helpers                                                         *)

None == <<>>
Some(v) == <<v>>
IsNone(o) == o = <<>>
Val(o) == o[1]

\* a returned value, or a raised exception
Ok(val) == [exc |-> "", val |-> val]
Exc(name, val) == [exc |-> name, val |-> val]

Min2(a, b) == IF a < b THEN a ELSE b
Max2(a, b) == IF a > b THEN a ELSE b

Range(s) == {s[i] : i \in 1..Len(s)}

RECURSIVE SumSeq(_)
SumSeq(s) == IF s = <<>> THEN 0 ELSE s[1] + SumSeq(Tail(s))

RECURSIVE Gcd(_, _)
Gcd(a, b) == IF b = 0 THEN a ELSE Gcd(b, a % b)

Abs(x) == IF x < 0 THEN -x ELSE x

\* x / n as a reduced fraction (Python float division, kept exact)
Frac(x, n) ==
    LET g == Gcd(Abs(x), n)
    IN  IF g = 0 THEN [num |-> 0, den |-> 1] ELSE [num |-> x \div g, den |-> n \div g]

----------------------------------------------------------------------------
(* Text helpers: str.strip(), str.lower()                                  *)

Whitespace == {" ", "\n"}

RECURSIVE LStrip(_)
LStrip(s) == IF s # <<>> /\ s[1] \in Whitespace THEN LStrip(Tail(s)) ELSE s

RECURSIVE RStrip(_)
RStrip(s) ==
    IF s # <<>> /\ s[Len(s)] \in Whitespace THEN RStrip(SubSeq(s, 1, Len(s) - 1)) ELSE s

Strip(s) == RStrip(LStrip(s))

UpperLetters == <<"A","B","C","D","E","F","G","H","I","J","K","L","M",
                  "N","O","P","Q","R","S","T","U","V","W","X","Y","Z">>
LowerLetters == <<"a","b","c","d","e","f","g","h","i","j","k","l","m",
                  "n","o","p","q","r","s","t","u","v","w","x","y","z">>

LowerChar(c) ==
    IF \E i \in 1..26 : UpperLetters[i] = c
    THEN LowerLetters[CHOOSE i \in 1..26 : UpperLetters[i] = c]
    ELSE c

Lower(s) == [i \in 1..Len(s) |-> LowerChar(s[i])]

\* Python slice s[i:j] with 0-based i, j (0 <= i)
Slice(s, i, j) == SubSeq(s, i + 1, Min2(j, Len(s)))

StartsWith(s, pre) == Len(s) >= Len(pre) /\ SubSeq(s, 1, Len(pre)) = pre

Contains(s, sub) == \E i \in 1..(Len(s) - Len(sub) + 1) : SubSeq(s, i, i + Len(sub) - 1) = sub

\* s.split("\n")
RECURSIVE SplitLines(_, _)
SplitLines(s, cur) ==
    IF s = <<>> THEN <<cur>>
    ELSE IF Head(s) = "\n" THEN <<cur>> \o SplitLines(Tail(s), <<>>)
    ELSE SplitLines(Tail(s), Append(cur, Head(s)))

\* "\n".join(lines)
RECURSIVE JoinLines(_)
JoinLines(ls) ==
    IF ls = <<>> THEN <<>>
    ELSE IF Len(ls) = 1 THEN ls[1]
    ELSE ls[1] \o <<"\n">> \o JoinLines(Tail(ls))

----------------------------------------------------------------------------
(* Configuration of the backup ingest router (environment variables).      *)
(* The model runs the router with CHUNK_TARGET_CHARS=6,                    *)
(* CHUNK_OVERLAP_CHARS=2, CHUNK_MIN_JOIN_CHARS=3, CHUNK_MIN_KEEP_CHARS=2   *)
(* so that bodies of a few characters give 0, 1 and 2 chunks.              *)

CHUNK_TARGET == 6
CHUNK_OVERLAP == 2
CHUNK_MIN_JOIN == 3
CHUNK_MIN_KEEP == 2

----------------------------------------------------------------------------
(* Pure helpers of api/backup/routers/ingest.py                            *)

\* sha256 over the four parts, each followed by 0x1e: modelled as the
\* (collision-free) tuple of the parts.
compute_hash(subject, plain_text, account_id, external_id) ==
    [kind |-> "sha256", subject |-> subject, plain_text |-> plain_text,
     account_id |-> account_id, external_id |-> external_id]

RECURSIVE normalize_acc(_, _)
normalize_acc(tags, out) ==
    IF tags = <<>> THEN out
    ELSE LET tt == Lower(Strip(Head(tags)))
         IN  IF tt = <<>> \/ tt \in Range(out)
             THEN normalize_acc(Tail(tags), out)
             ELSE normalize_acc(Tail(tags), Append(out, tt))

normalize_tags_stripped(tags) ==
    SelectSeq([i \in 1..Len(tags) |-> Strip(tags[i])], LAMBDA t : t # <<>>)
normalize_tags(tags) == normalize_acc(tags, <<>>)

\* the sliding window of _chunk_text, from window start i (0-based)
RECURSIVE chunk_windows(_, _)
chunk_windows(s, i) ==
    LET n == Len(s)
        j == Min2(n, i + CHUNK_TARGET)
        chunk == Strip(Slice(s, i, j))
        here == IF chunk # <<>> THEN <<chunk>> ELSE <<>>
    IN  IF i >= n THEN <<>>
        ELSE IF j >= n THEN here
        ELSE here \o chunk_windows(s, j - CHUNK_OVERLAP)

Newline == <<"\n">>

\* the merge loop of _chunk_text over the remaining chunks cs
RECURSIVE chunk_merge(_, _, _)
chunk_merge(cs, merged, buf) ==
    IF cs = <<>> THEN (IF buf # <<>> THEN Append(merged, buf) ELSE merged)
    ELSE LET c == Head(cs)
         IN  IF Len(c) < CHUNK_MIN_JOIN
             THEN chunk_merge(Tail(cs), merged,
                              IF buf # <<>> THEN Strip(buf \o Newline \o c) ELSE c)
             ELSE IF buf # <<>>
                  THEN IF Len(buf) < CHUNK_MIN_JOIN
                       THEN chunk_merge(Tail(cs), Append(merged, Strip(buf \o Newline \o c)), <<>>)
                       ELSE chunk_merge(Tail(cs), Append(Append(merged, buf), c), <<>>)
                  ELSE chunk_merge(Tail(cs), Append(merged, c), <<>>)

chunk_text(body) ==
    LET s == Strip(body)
    IN  IF s = <<>> THEN <<>>
        ELSE SelectSeq(chunk_merge(chunk_windows(s, 0), <<>>, <<>>),
                       LAMBDA c : Len(c) >= CHUNK_MIN_KEEP)

\* The embedding provider: a deterministic function of the text, here a
\* two-dimensional integer vector (an injective code of the text, its length).
CharCode(c) ==
    CASE c = "a" -> 1
      [] c = "b" -> 2
      [] c = "A" -> 3
      [] c = "B" -> 4
      [] c = " " -> 5
      [] OTHER -> 6

RECURSIVE TextCode(_)
TextCode(t) == IF t = <<>> THEN 0 ELSE CharCode(Head(t)) + 7 * TextCode(Tail(t))

embed_text(t) == <<TextCode(t), Len(t)>>

\* the first vector in place of the mean
avg_vectors_first(vecs) ==
    IF vecs = <<>> THEN <<>> ELSE [i \in 1..Len(vecs[1]) |-> Frac(vecs[1][i], 1)]

\* _avg_vectors: component-wise arithmetic mean, [] for no vectors
avg_vectors(vecs) ==
    IF vecs = <<>> THEN <<>>
    ELSE LET dim == Len(vecs[1])
             n == Len(vecs)
         IN  [i \in 1..dim |-> Frac(SumSeq([k \in 1..n |-> vecs[k][i]]), n)]

\* a provider vector as stored in documents.embedding
as_doc_vector(v) == [i \in 1..Len(v) |-> Frac(v[i], 1)]

RETRY_MAX == 4

\* a chat reply as _oai_tags reads it.  kind: "list" (a JSON array),
\* "tags_object" ({"tags": [..]}), "list_object" (an object with some array
\* value), "plain_object" (an object without arrays), "scalar" (other JSON),
\* "unparseable" (not JSON, not bracketed), "bracketed" (not JSON, starts
\* with "[" and ends with "]"), "no_content" (message.content is None);
\* "rate_limited" stands for a call that ran out of retries.
\* nonstring: the array holds a truthy item that is not a string
TagReply(kind, tags, nonstring) == [kind |-> kind, tags |-> tags, nonstring |-> nonstring]

\* the tags the try body reads from the reply text, or the exception it
\* meets: content.strip() on None, the second json.loads of the recovery
\* branch, .strip() on a non-string item in _normalize_tags
parse_tag_reply(reply) ==
    CASE reply.kind = "no_content" -> Exc("AttributeError", <<>>)
      [] reply.kind = "bracketed" -> Exc("JSONDecodeError", <<>>)
      [] reply.kind \in {"list", "tags_object", "list_object"} ->
            IF reply.nonstring THEN Exc("AttributeError", <<>>)
            ELSE Ok(normalize_tags(reply.tags))
      [] OTHER -> Ok(<<>>)

\* the try body without the handlers
clipped_tags_uncaught(reply) ==
    IF parse_tag_reply(reply).exc # "" THEN parse_tag_reply(reply)
    ELSE Ok(parse_tag_reply(reply).val)

\* tags = _normalize_tags(tags)[:5]; except Exception: return []
clipped_tags(reply) ==
    IF parse_tag_reply(reply).exc # "" THEN Ok(<<>>)
    ELSE Ok(SubSeq(parse_tag_reply(reply).val, 1, Min2(5, Len(parse_tag_reply(reply).val))))

\* _oai_tags on one chat reply: the first list found, normalized, cut to 5;
\* [] on an unparseable reply, on rate-limit exhaustion and on any other error
oai_tags(reply) ==
    IF reply.kind = "rate_limited" THEN <<>> ELSE clipped_tags(reply).val

----------------------------------------------------------------------------
(* Bounds and inputs of the ingest models                                  *)

MaxIngests == 3
MaxIngestsA == 2

Procs == {"p1", "p2"}
Accounts == {"u1", "u2"}
ExtIds == {"m1", "m2"}
DocKeys == Accounts \X ExtIds

BodyTiny == <<"a">>
BodyOne == <<"a", "b", "a", "b">>
BodyTwo == <<"a", "b", "a", "b", "b", "a", "b", "a">>
BodyBlank == <<" ">>
SubjHi == <<"A", "b">>

TagA == <<"A">>
TagLa == <<" ", "a">>
TagB == <<"b">>

\* GmailIngest payloads (account_id, external_id, subject, snippet,
\* plain_text, tags, metadata.labelIds, content_hash)
GmailDoc(a, e, subj, body, tags, labels, ch) ==
    [account_id |-> a, external_id |-> e, subject |-> subj, snippet |-> <<>>,
     plain_text |-> body, tags |-> tags, labelIds |-> labels, content_hash |-> ch]

ClientHash == [kind |-> "client", id |-> "h1"]

GmailDocs ==
    { GmailDoc("u1", "m1", SubjHi, BodyOne, <<TagA, TagLa>>, <<>>, None),
      GmailDoc("u1", "m1", SubjHi, BodyTwo, <<>>, <<TagB>>, None),
      GmailDoc("u1", "m1", <<>>, BodyTiny, <<>>, <<>>, None),
      GmailDoc("u1", "m2", SubjHi, BodyOne, <<>>, <<>>, Some(ClientHash)),
      GmailDoc("u1", "m1", SubjHi, BodyTwo, <<>>, <<>>, Some(ClientHash)),
      GmailDoc("u2", "m1", SubjHi, BodyOne, <<>>, <<>>, None),
      GmailDoc("u1", "m1", SubjHi, BodyBlank, <<>>, <<>>, None) }

\* replies of the tag model that _oai_tags may see
TagReplies ==
    { TagReply("list", <<TagB, TagA>>, FALSE),
      TagReply("unparseable", <<>>, FALSE),
      TagReply("rate_limited", <<>>, FALSE) }

----------------------------------------------------------------------------
(* State.  Five state machines share the module; each specification runs   *)
(* one of them and leaves the variables of the others as they start.       *)

VARIABLES
    sources,          \* accounts with a row in sources (provider 'gmail')
    documents,        \* DocKeys -> None | Some(document row)
    document_chunks,  \* DocKeys -> sequence of chunk rows, in insertion order
    document_tags,    \* DocKeys -> set of attached tag names
    tags,             \* names in the tags table
    srclock,          \* Accounts -> None | Some(process holding the source row lock)
    bpc,              \* Procs -> position of the request handler
    breq,             \* Procs -> None | Some(the GmailIngest being handled)
    btx,              \* Procs -> None | Some(uncommitted writes of the transaction)
    bresp,            \* Procs -> None | Some(HTTP response)
    bsnap,            \* Procs -> None | Some(the account's rows when the transaction began)
    nIngest           \* requests accepted so far

varsB == <<sources, documents, document_chunks, document_tags, tags, srclock,
           bpc, breq, btx, bresp, bsnap, nIngest>>

VARIABLES
    items,         \* rows of items; item_id = position
    emails,        \* rows of emails, at most one per item_id
    chunks,        \* rows of chunks, in insertion order
    item_tags,     \* rows of item_tags, at most one per item_id
    warmed_up,     \* embedding_service._warmed_up
    warmup_calls,  \* warmup requests sent to the provider so far
    apc,           \* Procs -> position of the request handler
    areq,          \* Procs -> None | Some(the EmailData being handled)
    aloc,          \* Procs -> locals of the handler
    asnap,         \* Procs -> None | Some(the store when the request began), None
                   \* once another request has written to the store since
    nIngestA       \* requests accepted so far

varsA == <<items, emails, chunks, item_tags, warmed_up, warmup_calls,
           apc, areq, aloc, asnap, nIngestA>>

VARIABLES
    rin,           \* the call extract_intent_and_params(text, available_agents) under study
    rout,          \* None | Some(what the call returned or raised)
    rpc            \* "off" | "call" | "done"

varsR == <<rin, rout, rpc>>

VARIABLES
    registry,      \* REGISTRY: the registered agent names
    tpc,           \* position of the process: startup, idle, in act()
    treq,          \* None | Some(the AgentRequest and the router's environment)
    tdet,          \* None | Some(what _detect_intent_and_params_llm returned)
    tresp,         \* None | Some(HTTP response of /agent/act)
    thandler,      \* handler calls made for the current request, in order
    traised,       \* None | Some(where an exception was raised in act())
    nAct           \* requests accepted so far

varsT == <<registry, tpc, treq, tdet, tresp, thandler, traised, nAct>>

VARIABLES
    corpus,        \* the documents the retrieval query runs over
    spc,           \* "off" | "idle" | "query" | "responded"
    sreq,          \* None | Some(the retrieval call being served)
    sresp,         \* None | Some(what the call returned or raised)
    nSearch        \* retrieval calls accepted so far

varsS == <<corpus, spc, sreq, sresp, nSearch>>

VARIABLES
    gpc,           \* position in steps 3 and 4 of ingest_gmail and in _oai_tags
    gin,           \* None | Some(the tags the request came with, ENABLE_OAI_TAGS)
    gattempt,      \* attempt of the retry loop of _oai_tags
    gcalls,        \* chat completions requested by this run
    gseen,         \* what the run met: "", "reply", "rate_limit", "error"
    greply,        \* None | Some(the chat reply)
    gextra,        \* None | Some(the list _oai_tags returned)
    gtags,         \* the tags of the document after the merge
    nTagRuns       \* runs accepted so far

varsG == <<gpc, gin, gattempt, gcalls, gseen, greply, gextra, gtags, nTagRuns>>

VARIABLES
    kpc,           \* position of the /ask handler
    kreq,          \* None | Some(the AskRequest being served)
    kdocs,         \* the context documents _fetch_docs returned
    kresp,         \* None | Some(the response)
    kchat,         \* chat completions requested by this request
    nAsk           \* requests accepted so far

varsK == <<kpc, kreq, kdocs, kresp, kchat, nAsk>>

VARIABLES
    epc,           \* position in _embed_with_retry: "idle" | "call" | "returned" | "raised"
    ein,           \* inputs: the texts to embed
    ek,            \* k: start of the current batch in inputs
    eattempt,      \* attempt of the current batch
    ecalls,        \* provider calls made for the current batch
    esleeps,       \* the sleeps taken for the current batch, in order
    eerr,          \* None | Some(the error the last provider call raised)
    eout,          \* out: the embeddings collected so far
    eres,          \* None | Some(what the call returned or raised)
    nEmbedRuns     \* calls of _embed_with_retry accepted so far

varsE == <<epc, ein, ek, eattempt, ecalls, esleeps, eerr, eout, eres, nEmbedRuns>>

VARIABLES
    cpc,           \* position in the chunker: "idle" | "window" | "done"
    ckind,         \* "" | "window" (_chunk_text) | "email" (create_chunks)
    ccfg,          \* CHUNK_TARGET_CHARS and CHUNK_OVERLAP_CHARS of the process
    cbody,         \* s: the stripped body
    ci,            \* i: start of the current window
    cwin,          \* chunks: the windows appended so far
    cout,          \* the chunks returned
    nChunkRuns     \* chunker calls accepted so far

varsC == <<cpc, ckind, ccfg, cbody, ci, cwin, cout, nChunkRuns>>

VARIABLES
    ppc,           \* the paging client: "off" | "idle" | "fetch" | "done"
    pcorpus,       \* the documents of the (unchanging) store
    preq,          \* None | Some(the request of the next page)
    pgot,          \* ids of the hits received so far, in order
    perr,          \* a page was answered with an error
    nLoops         \* paging loops started so far

varsP == <<ppc, pcorpus, preq, pgot, perr, nLoops>>

notBackup == <<varsA, varsR, varsT, varsS, varsG, varsK, varsE, varsC, varsP>>
notApp == <<varsB, varsR, varsT, varsS, varsG, varsK, varsE, varsC, varsP>>
notRouter == <<varsB, varsA, varsT, varsS, varsG, varsK, varsE, varsC, varsP>>
notAct == <<varsB, varsA, varsR, varsS, varsG, varsK, varsE, varsC, varsP>>
notSearch == <<varsB, varsA, varsR, varsT, varsG, varsK, varsE, varsC, varsP>>
notTags == <<varsB, varsA, varsR, varsT, varsS, varsK, varsE, varsC, varsP>>
notAsk == <<varsB, varsA, varsR, varsT, varsS, varsG, varsE, varsC, varsP>>
notEmbed == <<varsB, varsA, varsR, varsT, varsS, varsG, varsK, varsC, varsP>>
notChunk == <<varsB, varsA, varsR, varsT, varsS, varsG, varsK, varsE, varsP>>
notPage == <<varsB, varsA, varsR, varsT, varsS, varsG, varsK, varsE, varsC>>

----------------------------------------------------------------------------
(* State of the backup ingest router (psycopg2, one transaction per        *)
(* request) and of its PostgreSQL store                                    *)

NoDocs == [k \in DocKeys |-> None]
NoChunks == [k \in DocKeys |-> <<>>]
NoDocTags == [k \in DocKeys |-> {}]

InitB ==
    /\ sources = {}
    /\ documents = NoDocs
    /\ document_chunks = NoChunks
    /\ document_tags = NoDocTags
    /\ tags = {}
    /\ srclock = [a \in Accounts |-> None]
    /\ bpc = [p \in Procs |-> "idle"]
    /\ breq = [p \in Procs |-> None]
    /\ btx = [p \in Procs |-> None]
    /\ bresp = [p \in Procs |-> None]
    /\ bsnap = [p \in Procs |-> None]
    /\ nIngest = 0

\* content_hash = doc.content_hash or _compute_hash(...)
content_hash_of(doc) ==
    IF doc.content_hash # None THEN Val(doc.content_hash)
    ELSE compute_hash(doc.subject, doc.plain_text, doc.account_id, doc.external_id)

\* tags = _normalize_tags(doc.tags + lowercased labelIds)
incoming_tags(doc) ==
    normalize_tags(doc.tags \o [i \in 1..Len(doc.labelIds) |-> Lower(doc.labelIds[i])])

\* seed_text = subject.strip() or (snippet or plain_text[:300]).strip()
seed_text(doc) ==
    IF Strip(doc.subject) # <<>> THEN Strip(doc.subject)
    ELSE Strip(IF doc.snippet # <<>> THEN doc.snippet ELSE Slice(doc.plain_text, 0, 300))

KeyOf(doc) == <<doc.account_id, doc.external_id>>

\* the rows of one account, as a transaction on that source sees them
AccountRows(a, docs, dchunks, dtags) ==
    [documents |-> [k \in DocKeys |-> IF k[1] = a THEN docs[k] ELSE None],
     document_chunks |-> [k \in DocKeys |-> IF k[1] = a THEN dchunks[k] ELSE <<>>],
     document_tags |-> [k \in DocKeys |-> IF k[1] = a THEN dtags[k] ELSE {}]]

\* SELECT id FROM documents WHERE source_id = sid AND content_hash = h
DocsWithHash(docs, a, h) ==
    {k \in DocKeys : k[1] = a /\ docs[k] # None /\ Val(docs[k]).content_hash = h}

\* the probe without the source scope
gmail_exists_any_source(hash, account_id, global_search, srcs, docs) ==
    IF hash = None THEN 400
    ELSE IF \E k \in DocKeys : docs[k] # None /\ Val(docs[k]).content_hash = Val(hash)
         THEN 200 ELSE 404

\* gmail_exists (HEAD /ingest/gmail/exists) on the committed rows: the
\* status it answers with
gmail_exists(hash, account_id, global_search, srcs, docs) ==
    IF hash = None THEN 400
    ELSE IF global_search
    THEN (IF \E k \in DocKeys : docs[k] # None /\ Val(docs[k]).content_hash = Val(hash)
          THEN 200 ELSE 404)
    ELSE IF account_id = None THEN 400
    ELSE IF Val(account_id) \notin srcs THEN 404
    ELSE IF DocsWithHash(docs, Val(account_id), Val(hash)) # {} THEN 200 ELSE 404

Response(status, ok, dedup, n, id, detail) ==
    [status |-> status, ok |-> ok, dedup |-> dedup, n_chunks |-> n,
     document_id |-> id, detail |-> detail]

----------------------------------------------------------------------------
(* ingest_gmail of api/backup/routers/ingest.py, one action per step.      *)
(* "with _connect() as conn" commits on a normal exit and rolls back on    *)
(* an exception.  The INSERT .. ON CONFLICT DO UPDATE of _upsert_source    *)
(* locks the source row until the transaction ends, so a second            *)
(* transaction on the same account waits there.                            *)

BDoc(p) == Val(breq[p])
BTx(p) == Val(btx[p])

\* 400 empty_plain_text, before any connection is opened
BReject(p) ==
    /\ bpc[p] = "idle"
    /\ nIngest < MaxIngests
    /\ \E doc \in GmailDocs :
        /\ Strip(doc.plain_text) = <<>>
        /\ breq' = [breq EXCEPT ![p] = Some(doc)]
        /\ bresp' = [bresp EXCEPT ![p] = Some(Response(400, FALSE, FALSE, 0, None, "empty_plain_text"))]
    /\ bpc' = [bpc EXCEPT ![p] = "failed"]
    /\ nIngest' = nIngest + 1
    /\ UNCHANGED <<sources, documents, document_chunks, document_tags, tags, srclock, btx, bsnap>>
    /\ UNCHANGED notBackup

BStart(p) ==
    /\ bpc[p] = "idle"
    /\ nIngest < MaxIngests
    /\ \E doc \in GmailDocs :
        /\ Strip(doc.plain_text) # <<>>
        /\ breq' = [breq EXCEPT ![p] = Some(doc)]
    /\ bpc' = [bpc EXCEPT ![p] = "begin"]
    /\ nIngest' = nIngest + 1
    /\ UNCHANGED <<sources, documents, document_chunks, document_tags, tags, srclock, btx, bresp, bsnap>>
    /\ UNCHANGED notBackup

\* 1) source upsert, 1.5) early dedup hit: commit and return the existing id
BDedup(p) ==
    /\ bpc[p] = "begin"
    /\ srclock[BDoc(p).account_id] = None
    /\ \E k \in DocsWithHash(documents, BDoc(p).account_id, content_hash_of(BDoc(p))) :
        bresp' = [bresp EXCEPT ![p] = Some(Response(200, TRUE, TRUE, 0, Some(k), "dedup"))]
    /\ sources' = sources \cup {BDoc(p).account_id}
    /\ bpc' = [bpc EXCEPT ![p] = "done"]
    /\ UNCHANGED <<documents, document_chunks, document_tags, tags, srclock, breq, btx, bsnap, nIngest>>
    /\ UNCHANGED notBackup

\* 1) source upsert, 1.5) early dedup miss: the transaction goes on
BBegin(p) ==
    /\ bpc[p] = "begin"
    /\ srclock[BDoc(p).account_id] = None
    /\ DocsWithHash(documents, BDoc(p).account_id, content_hash_of(BDoc(p))) = {}
    /\ srclock' = [srclock EXCEPT ![BDoc(p).account_id] = Some(p)]
    /\ btx' = [btx EXCEPT ![p] = Some([documents |-> documents,
                                        document_chunks |-> document_chunks,
                                        document_tags |-> document_tags,
                                        newtags |-> {}, tags |-> incoming_tags(BDoc(p)),
                                        n_chunks |-> 0])]
    /\ bsnap' = [bsnap EXCEPT ![p] = Some(AccountRows(BDoc(p).account_id, documents,
                                                       document_chunks, document_tags))]
    /\ bpc' = [bpc EXCEPT ![p] = "upsert"]
    /\ UNCHANGED <<sources, documents, document_chunks, document_tags, tags, breq, bresp, nIngest>>
    /\ UNCHANGED notBackup

\* the row INSERT .. ON CONFLICT (source_id, external_id) DO UPDATE leaves:
\* the embedding column is not in the SET list and keeps its value
upserted_document(old, doc) ==
    [content_hash |-> content_hash_of(doc), title |-> doc.subject,
     plain_text |-> doc.plain_text,
     embedding |-> IF old = None THEN None ELSE Val(old).embedding]

\* 2) upsert document by (source_id, external_id)
BUpsertDoc(p) ==
    /\ bpc[p] = "upsert"
    /\ btx' = [btx EXCEPT ![p] = Some([BTx(p) EXCEPT
                 !.documents[KeyOf(BDoc(p))] =
                     Some(upserted_document(BTx(p).documents[KeyOf(BDoc(p))], BDoc(p)))])]
    /\ bpc' = [bpc EXCEPT ![p] = "tags"]
    /\ UNCHANGED <<sources, documents, document_chunks, document_tags, tags, srclock, breq, bresp, bsnap, nIngest>>
    /\ UNCHANGED notBackup

\* tags = _normalize_tags(tags + extra_tags) if extra_tags
merged_tags(tagsIn, extra) ==
    IF extra # <<>> THEN normalize_tags(tagsIn \o extra) ELSE tagsIn

\* 3) tag extraction, 4) _ensure_tag + _attach_tag for every name
BTags(p) ==
    /\ bpc[p] = "tags"
    /\ \E reply \in TagReplies :
        LET tg == merged_tags(BTx(p).tags, oai_tags(reply))
        IN  btx' = [btx EXCEPT ![p] = Some([BTx(p) EXCEPT
                      !.tags = tg,
                      !.newtags = @ \cup Range(tg),
                      !.document_tags[KeyOf(BDoc(p))] = @ \cup Range(tg)])]
    /\ bpc' = [bpc EXCEPT ![p] = "chunks"]
    /\ UNCHANGED <<sources, documents, document_chunks, document_tags, tags, srclock, breq, bresp, bsnap, nIngest>>
    /\ UNCHANGED notBackup

\* rows (ord, text, embedding) for enumerate(zip(chunks, embeddings))
chunk_rows(cs) ==
    [i \in 1..Len(cs) |-> [ord |-> i - 1, text |-> cs[i], embedding |-> embed_text(cs[i])]]

\* 5) chunking, 6) embedding: with chunks, DELETE the old chunk rows, insert
\* the new ones and set the mean vector; without chunks, embed the seed text
ingest_chunks_step(tx, doc) ==
    LET k == KeyOf(doc)
        new_chunks == chunk_text(doc.plain_text)
        rows == chunk_rows(new_chunks)
        seed == seed_text(doc)
    IN  IF new_chunks # <<>>
        THEN [tx EXCEPT
                !.document_chunks[k] = rows,
                !.documents[k] = Some([Val(@) EXCEPT !.embedding =
                     Some(avg_vectors([i \in 1..Len(rows) |-> rows[i].embedding]))]),
                !.n_chunks = Len(new_chunks)]
        ELSE IF seed # <<>>
        THEN [tx EXCEPT
                !.documents[k] = Some([Val(@) EXCEPT !.embedding =
                     Some(as_doc_vector(embed_text(seed)))])]
        ELSE tx

BChunks(p) ==
    /\ bpc[p] = "chunks"
    /\ btx' = [btx EXCEPT ![p] = Some(ingest_chunks_step(BTx(p), BDoc(p)))]
    /\ bpc' = [bpc EXCEPT ![p] = "commit"]
    /\ UNCHANGED <<sources, documents, document_chunks, document_tags, tags, srclock, breq, bresp, bsnap, nIngest>>
    /\ UNCHANGED notBackup

\* conn.commit(): the transaction's rows of its account become visible
BCommit(p) ==
    /\ bpc[p] = "commit"
    /\ LET a == BDoc(p).account_id
           tx == BTx(p)
       IN  /\ documents' = [k \in DocKeys |-> IF k[1] = a THEN tx.documents[k] ELSE documents[k]]
           /\ document_chunks' = [k \in DocKeys |-> IF k[1] = a THEN tx.document_chunks[k] ELSE document_chunks[k]]
           /\ document_tags' = [k \in DocKeys |-> IF k[1] = a THEN tx.document_tags[k] ELSE document_tags[k]]
           /\ tags' = tags \cup tx.newtags
           /\ sources' = sources \cup {a}
           /\ srclock' = [srclock EXCEPT ![a] = None]
           /\ bresp' = [bresp EXCEPT ![p] = Some(Response(200, TRUE, FALSE, tx.n_chunks,
                                                           Some(KeyOf(BDoc(p))), "ok"))]
    /\ bpc' = [bpc EXCEPT ![p] = "done"]
    /\ UNCHANGED <<breq, btx, bsnap, nIngest>>
    /\ UNCHANGED notBackup

\* an exception in steps 2..6 or in the commit (psycopg2.Error, a provider
\* error after the retries, embedding_error): rollback, 500 or 502
BFail(p) ==
    /\ bpc[p] \in {"upsert", "tags", "chunks", "commit"}
    /\ srclock' = [srclock EXCEPT ![BDoc(p).account_id] = None]
    /\ bresp' = [bresp EXCEPT ![p] = Some(Response(500, FALSE, FALSE, 0, None, bpc[p]))]
    /\ bpc' = [bpc EXCEPT ![p] = "failed"]
    /\ UNCHANGED <<sources, documents, document_chunks, document_tags, tags, breq, btx, bsnap, nIngest>>
    /\ UNCHANGED notBackup

\* the response is sent; the worker takes the next request
BFinish(p) ==
    /\ bpc[p] \in {"done", "failed"}
    /\ bpc' = [bpc EXCEPT ![p] = "idle"]
    /\ breq' = [breq EXCEPT ![p] = None]
    /\ btx' = [btx EXCEPT ![p] = None]
    /\ bresp' = [bresp EXCEPT ![p] = None]
    /\ bsnap' = [bsnap EXCEPT ![p] = None]
    /\ UNCHANGED <<sources, documents, document_chunks, document_tags, tags, srclock, nIngest>>
    /\ UNCHANGED notBackup

NextB ==
    \E p \in Procs :
        \/ BReject(p)
        \/ BStart(p)
        \/ BDedup(p)
        \/ BBegin(p)
        \/ BUpsertDoc(p)
        \/ BTags(p)
        \/ BChunks(p)
        \/ BCommit(p)
        \/ BFail(p)
        \/ BFinish(p)

----------------------------------------------------------------------------
(* Pure helpers of api/app/routers/ingest.py (EmailProcessor)              *)

SepLines == { <<"-", "-">>, <<"-", "-", "-">>, <<"_", "_", "_", "_">> }

\* re.match(r'^(Best|Kind|Warm)\s+(regards|wishes)', line, re.IGNORECASE)
is_signature_line(line) ==
    LET l == Lower(line)
    IN  \E w \in { <<"b","e","s","t">>, <<"k","i","n","d">>, <<"w","a","r","m">> } :
            /\ StartsWith(l, w)
            /\ LET rest == SubSeq(l, 5, Len(l))
               IN  /\ rest # <<>> /\ rest[1] \in Whitespace
                   /\ \/ StartsWith(LStrip(rest), <<"r","e","g","a","r","d","s">>)
                      \/ StartsWith(LStrip(rest), <<"w","i","s","h","e","s">>)

is_cut_line(line) ==
    \/ StartsWith(line, <<">">>)
    \/ (StartsWith(line, <<"O", "n", " ">>) /\ Contains(line, <<"w","r","o","t","e",":">>))
    \/ line \in SepLines
    \/ is_signature_line(line)

\* the for loop of clean_email_body: keep stripped lines up to the first cut line
RECURSIVE clean_lines(_)
clean_lines(ls) ==
    IF ls = <<>> THEN <<>>
    ELSE LET line == Strip(Head(ls))
         IN  IF is_cut_line(line) THEN <<>> ELSE <<line>> \o clean_lines(Tail(ls))

clean_email_body(body) ==
    IF body = <<>> THEN <<>> ELSE Strip(JoinLines(clean_lines(SplitLines(body, <<>>))))

\* the while loop of create_chunks over the rest of the body
RECURSIVE more_chunks(_, _)
more_chunks(remaining, ord) ==
    IF remaining # <<>> /\ Len(remaining) > 160
    THEN <<[ord |-> ord, text |-> Slice(remaining, 0, 1200)]>>
         \o more_chunks(SubSeq(remaining, 1041, Len(remaining)), ord + 1)
    ELSE <<>>

\* chunk 0 = subject[:300], chunk 1 = body[:1000], then 1200-char windows
create_chunks(subject, cleaned_body) ==
    (IF subject # <<>> THEN <<[ord |-> 0, text |-> Slice(subject, 0, 300)]>> ELSE <<>>)
    \o (IF cleaned_body # <<>>
        THEN <<[ord |-> 1, text |-> Slice(cleaned_body, 0, 1000)]>>
             \o more_chunks(SubSeq(cleaned_body, 1001, Len(cleaned_body)), 2)
        ELSE <<>>)

\* normalize_email: body = plain_text_top or plain_text_full or "",
\* content_hash = sha256(subject + cleaned_body)
email_body(email) == IF email.plain_text_top # <<>> THEN email.plain_text_top ELSE email.plain_text_full

cleaned_body_of(email) == clean_email_body(email_body(email))

email_hash(email) == [kind |-> "sha256", text |-> email.subject \o cleaned_body_of(email)]

----------------------------------------------------------------------------
(* Inputs of the app ingest router                                         *)

EmailData(g, m, acct, subj, top, full, labels) ==
    [gmail_id |-> g, message_id |-> m, account_email |-> acct, subject |-> subj,
     plain_text_top |-> top, plain_text_full |-> full, labels |-> labels]

BodyQuoted == <<"a", "b", "\n", ">", "b">>

Emails ==
    { EmailData("g1", "x1", "u1", SubjHi, BodyOne, <<>>, <<>>),
      EmailData("g1", "x1", "u1", SubjHi, <<>>, BodyTwo, <<TagB>>),
      EmailData("g1", "x1", "u1", <<>>, BodyQuoted, <<>>, <<>>),
      EmailData("g2", "x2", "u1", SubjHi, BodyOne, <<>>, <<TagA>>) }

----------------------------------------------------------------------------
(* State of the app ingest router (asyncpg, every statement autocommits)   *)
(* and of the process-wide OllamaEmbeddingService                          *)

\* called_provider: the request has sent something to the embedding
\* provider; written collects the tables the request has executed a write statement on
NoLocals == [item_id |-> 0, is_update |-> FALSE, skip_embedding |-> FALSE,
             todo |-> <<>>, inserted_chunks |-> 0, chunk_failed |-> FALSE,
             called_provider |-> FALSE, written |-> {}]

InitA ==
    /\ items = <<>>
    /\ emails = {}
    /\ chunks = <<>>
    /\ item_tags = {}
    /\ warmed_up = FALSE
    /\ warmup_calls = 0
    /\ apc = [p \in Procs |-> "idle"]
    /\ areq = [p \in Procs |-> None]
    /\ aloc = [p \in Procs |-> NoLocals]
    /\ asnap = [p \in Procs |-> None]
    /\ nIngestA = 0

AppStore == [items |-> items, emails |-> emails, chunks |-> chunks, item_tags |-> item_tags]

AEmail(p) == Val(areq[p])

\* item ids the "existing" query of upsert_email matches
existing_items(its, ems, email) ==
    {i \in 1..Len(its) :
        \/ (its[i].origin_source = email.account_email /\ its[i].origin_id = email.gmail_id)
        \/ \E e \in ems : e.item_id = i /\ e.message_id = email.message_id}

\* a write by p ends the other requests' unchanged-store snapshots
SnapAfterWrite(p) == [q \in Procs |-> IF q = p THEN asnap[q] ELSE None]

----------------------------------------------------------------------------
(* ingest_gmail of api/app/routers/ingest.py for one email, one action per *)
(* awaited statement.  There is no transaction: asyncpg autocommits each   *)
(* statement, and an exception leaves the earlier writes in place.         *)

AStart(p) ==
    /\ apc[p] = "idle"
    /\ nIngestA < MaxIngestsA
    /\ \E email \in Emails : areq' = [areq EXCEPT ![p] = Some(email)]
    /\ apc' = [apc EXCEPT ![p] = "select"]
    /\ aloc' = [aloc EXCEPT ![p] = NoLocals]
    /\ asnap' = [asnap EXCEPT ![p] = Some(AppStore)]
    /\ nIngestA' = nIngestA + 1
    /\ UNCHANGED <<items, emails, chunks, item_tags, warmed_up, warmup_calls>>
    /\ UNCHANGED notApp

\* upsert_email: the item exists with the same content_hash: skip re-embedding
ASelectSkip(p) ==
    /\ apc[p] = "select"
    /\ \E i \in existing_items(items, emails, AEmail(p)) :
        /\ items[i].content_hash = email_hash(AEmail(p))
        /\ aloc' = [aloc EXCEPT ![p].item_id = i, ![p].skip_embedding = TRUE]
    /\ apc' = [apc EXCEPT ![p] = "tags"]
    /\ UNCHANGED <<items, emails, chunks, item_tags, warmed_up, warmup_calls, areq, asnap, nIngestA>>
    /\ UNCHANGED notApp

\* upsert_email: the item exists with another content_hash: update path
ASelectUpdate(p) ==
    /\ apc[p] = "select"
    /\ \E i \in existing_items(items, emails, AEmail(p)) :
        /\ items[i].content_hash # email_hash(AEmail(p))
        /\ aloc' = [aloc EXCEPT ![p].item_id = i, ![p].is_update = TRUE]
    /\ apc' = [apc EXCEPT ![p] = "update_hash"]
    /\ UNCHANGED <<items, emails, chunks, item_tags, warmed_up, warmup_calls, areq, asnap, nIngestA>>
    /\ UNCHANGED notApp

\* upsert_email: no such item: insert path
ASelectNew(p) ==
    /\ apc[p] = "select"
    /\ existing_items(items, emails, AEmail(p)) = {}
    /\ apc' = [apc EXCEPT ![p] = "insert"]
    /\ UNCHANGED <<items, emails, chunks, item_tags, warmed_up, warmup_calls, areq, aloc, asnap, nIngestA>>
    /\ UNCHANGED notApp

\* UPDATE items SET content_hash = $1 WHERE item_id = $2
AUpdateHash(p) ==
    /\ apc[p] = "update_hash"
    /\ items' = [items EXCEPT ![aloc[p].item_id].content_hash = email_hash(AEmail(p))]
    /\ aloc' = [aloc EXCEPT ![p].written = @ \cup {"items"}]
    /\ apc' = [apc EXCEPT ![p] = "delete_chunks"]
    /\ asnap' = SnapAfterWrite(p)
    /\ UNCHANGED <<emails, chunks, item_tags, warmed_up, warmup_calls, areq, nIngestA>>
    /\ UNCHANGED notApp

\* DELETE FROM chunks WHERE item_id = $1
ADeleteChunks(p) ==
    /\ apc[p] = "delete_chunks"
    /\ chunks' = SelectSeq(chunks, LAMBDA c : c.item_id # aloc[p].item_id)
    /\ aloc' = [aloc EXCEPT ![p].written = @ \cup {"chunks"}]
    /\ apc' = [apc EXCEPT ![p] = "email"]
    /\ asnap' = SnapAfterWrite(p)
    /\ UNCHANGED <<items, emails, item_tags, warmed_up, warmup_calls, areq, nIngestA>>
    /\ UNCHANGED notApp

\* uniqueness of items(origin_source, origin_id), the store's
\* documents(source_id, external_id) constraint
items_key_free(its, email) ==
    \A i \in 1..Len(its) :
        ~(its[i].origin_source = email.account_email /\ its[i].origin_id = email.gmail_id)

\* INSERT INTO items (...) RETURNING item_id
AInsertItem(p) ==
    /\ apc[p] = "insert"
    /\ items_key_free(items, AEmail(p))
    /\ items' = Append(items, [origin_source |-> AEmail(p).account_email,
                               origin_id |-> AEmail(p).gmail_id,
                               title |-> AEmail(p).subject,
                               content_hash |-> email_hash(AEmail(p))])
    /\ aloc' = [aloc EXCEPT ![p].item_id = Len(items) + 1, ![p].written = @ \cup {"items"}]
    /\ apc' = [apc EXCEPT ![p] = "email"]
    /\ asnap' = SnapAfterWrite(p)
    /\ UNCHANGED <<emails, chunks, item_tags, warmed_up, warmup_calls, areq, nIngestA>>
    /\ UNCHANGED notApp

\* INSERT INTO emails (...) ON CONFLICT (item_id) DO UPDATE; then
\* create_chunks(subject, cleaned_body) in ingest_gmail
AEmailUpsert(p) ==
    /\ apc[p] = "email"
    /\ emails' = {e \in emails : e.item_id # aloc[p].item_id}
                 \cup {[item_id |-> aloc[p].item_id,
                        message_id |-> AEmail(p).message_id,
                        content_hash |-> email_hash(AEmail(p)),
                        cleaned_body |-> cleaned_body_of(AEmail(p))]}
    /\ LET cs == create_chunks(AEmail(p).subject, cleaned_body_of(AEmail(p)))
       IN  /\ aloc' = [aloc EXCEPT ![p].todo = cs, ![p].written = @ \cup {"emails"}]
           /\ apc' = [apc EXCEPT ![p] = IF cs = <<>> THEN "tags" ELSE "warmup"]
    /\ asnap' = SnapAfterWrite(p)
    /\ UNCHANGED <<items, chunks, item_tags, warmed_up, warmup_calls, areq, nIngestA>>
    /\ UNCHANGED notApp

\* process_chunks moves on to the next chunk, or returns
NextChunkPc(todo) == IF Len(todo) > 1 THEN "warmup" ELSE "tags"

\* warmup(): already warmed up, return at once
AWarmSkip(p) ==
    /\ apc[p] = "warmup"
    /\ warmed_up
    /\ apc' = [apc EXCEPT ![p] = "embed"]
    /\ UNCHANGED <<items, emails, chunks, item_tags, warmed_up, warmup_calls, areq, aloc, asnap, nIngestA>>
    /\ UNCHANGED notApp

\* warmup(): not warmed up, send the warmup request and await the answer
AWarmCall(p) ==
    /\ apc[p] = "warmup"
    /\ ~warmed_up
    /\ warmup_calls' = warmup_calls + 1
    /\ aloc' = [aloc EXCEPT ![p].called_provider = TRUE]
    /\ apc' = [apc EXCEPT ![p] = "warming"]
    /\ UNCHANGED <<items, emails, chunks, item_tags, warmed_up, areq, asnap, nIngestA>>
    /\ UNCHANGED notApp

\* the warmup answer arrives: self._warmed_up = True
AWarmOk(p) ==
    /\ apc[p] = "warming"
    /\ warmed_up' = TRUE
    /\ apc' = [apc EXCEPT ![p] = "embed"]
    /\ UNCHANGED <<items, emails, chunks, item_tags, warmup_calls, areq, aloc, asnap, nIngestA>>
    /\ UNCHANGED notApp

\* the warmup request fails: 503 raised into process_chunks, which prints
\* it and goes on with the next chunk
AWarmFail(p) ==
    /\ apc[p] = "warming"
    /\ aloc' = [aloc EXCEPT ![p].todo = Tail(@), ![p].chunk_failed = TRUE]
    /\ apc' = [apc EXCEPT ![p] = NextChunkPc(aloc[p].todo)]
    /\ UNCHANGED <<items, emails, chunks, item_tags, warmed_up, warmup_calls, areq, asnap, nIngestA>>
    /\ UNCHANGED notApp

\* get_embedding answers and the chunk row is inserted (the embedding
\* request touches no shared state and is taken together with the INSERT)
AEmbedInsert(p) ==
    /\ apc[p] = "embed"
    /\ LET c == Head(aloc[p].todo)
       IN  chunks' = Append(chunks, [item_id |-> aloc[p].item_id, ord |-> c.ord,
                                     text |-> c.text, embedding |-> embed_text(c.text)])
    /\ aloc' = [aloc EXCEPT ![p].todo = Tail(@), ![p].inserted_chunks = @ + 1,
                             ![p].called_provider = TRUE, ![p].written = @ \cup {"chunks"}]
    /\ apc' = [apc EXCEPT ![p] = NextChunkPc(aloc[p].todo)]
    /\ asnap' = SnapAfterWrite(p)
    /\ UNCHANGED <<items, emails, item_tags, warmed_up, warmup_calls, areq, nIngestA>>
    /\ UNCHANGED notApp

\* get_embedding or the INSERT raises: printed, the loop continues
AEmbedFail(p) ==
    /\ apc[p] = "embed"
    /\ aloc' = [aloc EXCEPT ![p].todo = Tail(@), ![p].chunk_failed = TRUE,
                             ![p].called_provider = TRUE]
    /\ apc' = [apc EXCEPT ![p] = NextChunkPc(aloc[p].todo)]
    /\ UNCHANGED <<items, emails, chunks, item_tags, warmed_up, warmup_calls, areq, asnap, nIngestA>>
    /\ UNCHANGED notApp

\* process_tags: nothing to do without labels; else upsert item_tags
ATags(p) ==
    /\ apc[p] = "tags"
    /\ IF AEmail(p).labels = <<>>
       THEN UNCHANGED <<item_tags, asnap, aloc>>
       ELSE /\ item_tags' = {t \in item_tags : t.item_id # aloc[p].item_id}
                            \cup {[item_id |-> aloc[p].item_id, labels |-> AEmail(p).labels]}
            /\ aloc' = [aloc EXCEPT ![p].written = @ \cup {"item_tags"}]
            /\ asnap' = SnapAfterWrite(p)
    /\ apc' = [apc EXCEPT ![p] = "done"]
    /\ UNCHANGED <<items, emails, chunks, warmed_up, warmup_calls, areq, nIngestA>>
    /\ UNCHANGED notApp

\* a statement of upsert_email or process_tags raises (a database error, or
\* the unique violation of a concurrent insert of the same key): the except
\* of the email loop records the error; nothing is undone
AFail(p) ==
    /\ \/ apc[p] \in {"select", "update_hash", "delete_chunks", "email", "tags"}
       \/ apc[p] = "insert"
    /\ apc' = [apc EXCEPT ![p] = "error"]
    /\ UNCHANGED <<items, emails, chunks, item_tags, warmed_up, warmup_calls, areq, aloc, asnap, nIngestA>>
    /\ UNCHANGED notApp

\* the skipped request counted as an insert
ingestion_response_skip_as_insert(loc) ==
    [ok |-> TRUE, processed |-> 1, inserted_items |-> 1, updated_items |-> 0,
     inserted_chunks |-> 1, skipped_embedding |-> 0, item_ids |-> <<loc.item_id>>]

\* IngestionResponse of a request with one email that was processed without
\* an exception: the counters of the email loop
ingestion_response(loc) ==
    [ok |-> TRUE, processed |-> 1,
     inserted_items |-> IF ~loc.skip_embedding /\ ~loc.is_update THEN 1 ELSE 0,
     updated_items |-> IF ~loc.skip_embedding /\ loc.is_update THEN 1 ELSE 0,
     inserted_chunks |-> loc.inserted_chunks,
     skipped_embedding |-> IF loc.skip_embedding THEN 1 ELSE 0,
     item_ids |-> <<loc.item_id>>]

\* the response is returned; the worker takes the next request
AFinish(p) ==
    /\ apc[p] \in {"done", "error"}
    /\ apc' = [apc EXCEPT ![p] = "idle"]
    /\ areq' = [areq EXCEPT ![p] = None]
    /\ aloc' = [aloc EXCEPT ![p] = NoLocals]
    /\ asnap' = [asnap EXCEPT ![p] = None]
    /\ UNCHANGED <<items, emails, chunks, item_tags, warmed_up, warmup_calls, nIngestA>>
    /\ UNCHANGED notApp

NextA ==
    \E p \in Procs :
        \/ AStart(p)
        \/ ASelectSkip(p)
        \/ ASelectUpdate(p)
        \/ ASelectNew(p)
        \/ AUpdateHash(p)
        \/ ADeleteChunks(p)
        \/ AInsertItem(p)
        \/ AEmailUpsert(p)
        \/ AWarmSkip(p)
        \/ AWarmCall(p)
        \/ AWarmOk(p)
        \/ AWarmFail(p)
        \/ AEmbedInsert(p)
        \/ AEmbedFail(p)
        \/ ATags(p)
        \/ AFail(p)
        \/ AFinish(p)

----------------------------------------------------------------------------
----------------------------------------------------------------------------
(* Python values used by the intent router                                 *)

\* a dict: a function from its keys; {} is the function with no key
EmptyDict == <<>>
Has(d, k) == k \in DOMAIN d
Put(d, k, v) == [x \in (DOMAIN d) \cup {k} |-> IF x = k THEN v ELSE d[x]]
Del(d, k) == [x \in (DOMAIN d) \ {k} |-> d[x]]
\* a.copy() followed by .update(b)
Updated(a, b) == [x \in (DOMAIN a) \cup (DOMAIN b) |-> IF x \in DOMAIN b THEN b[x] ELSE a[x]]

\* A JSON value of a chat reply: t its type, v its number, s its text.
\*   "int": the integer v          "float": v hundredths      "bool": v (0, 1)
\*   "numstr": the string of the integer v    "str": the text s
\*   "null"     "nan"     "inf": v = 1 for Infinity, -1 for -Infinity
J(t, v, s) == [t |-> t, v |-> v, s |-> s]
JInt(n) == J("int", n, <<>>)
JFloat(h) == J("float", h, <<>>)
JStr(s) == J("str", 0, s)
JNull == J("null", 0, <<>>)

\* a Python float: finite (v hundredths), nan, or inf (v = 1, -1)
F(k, v) == [k |-> k, v |-> v]

\* float(x)
py_float(j) ==
    CASE j.t \in {"int", "bool", "numstr"} -> Ok(F("fin", 100 * j.v))
      [] j.t = "float" -> Ok(F("fin", j.v))
      [] j.t = "nan" -> Ok(F("nan", 0))
      [] j.t = "inf" -> Ok(F("inf", j.v))
      [] j.t = "null" -> Exc("TypeError", F("fin", 0))
      [] OTHER -> Exc("ValueError", F("fin", 0))

\* int(x): truncation toward zero for a float
py_int(j) ==
    CASE j.t \in {"int", "bool", "numstr"} -> Ok(j.v)
      [] j.t = "float" -> Ok(IF j.v >= 0 THEN j.v \div 100 ELSE -((-j.v) \div 100))
      [] j.t = "inf" -> Exc("OverflowError", 0)
      [] j.t = "null" -> Exc("TypeError", 0)
      [] OTHER -> Exc("ValueError", 0)

\* a < b on floats: false whenever one side is nan
FloatLt(a, b) ==
    CASE a.k = "nan" \/ b.k = "nan" -> FALSE
      [] a.k = "fin" /\ b.k = "fin" -> a.v < b.v
      [] a.k = "inf" /\ b.k = "inf" -> a.v < b.v
      [] a.k = "inf" -> a.v < 0
      [] OTHER -> b.v > 0

\* min(a, b) and max(a, b): the first argument unless the second is
\* strictly smaller (larger)
py_min(a, b) == IF FloatLt(b, a) THEN b ELSE a
py_max(a, b) == IF FloatLt(a, b) THEN b ELSE a

\* max(0.0, min(1.0, confidence))
clamp_confidence(c) == py_max(F("fin", 0), py_min(F("fin", 100), c))

\* a clamp that lets the number through
clamp_int_missing(lo, hi, n) == n

\* max(lo, min(hi, n))
clamp_int(lo, hi, n) == Max2(lo, Min2(hi, n))

\* truthiness of a JSON value
truthy(j) ==
    CASE j.t \in {"int", "float", "bool"} -> j.v # 0
      [] j.t = "str" -> j.s # <<>>
      [] j.t = "null" -> FALSE
      [] OTHER -> TRUE

----------------------------------------------------------------------------
(* The intent router: extract_intent_and_params of api/agents/intent_llm.py *)
(* ("current") and of api/backup/backup/agents/intent_llm.py ("backup").   *)
(* Of the text parameters the model keeps sender; domain, language,        *)
(* highlight, query, keywords, tags and boost_tags carry no number and     *)
(* are copied key by key in the same way.                                  *)

\* the "intent" of a reply: JSON null or a string
JIntent(t, name) == [t |-> t, name |-> name]
NullIntent == JIntent("null", "")

\* the "params" of a reply: a dict d, null, a string, or no such key
JParams(t, d) == [t |-> t, d |-> d]

\* a chat reply: kind "raises" (the provider call fails), "invalid_json",
\* or "object" with its intent, confidence (None: no such key) and params
Reply(kind, intent, confidence, params) ==
    [kind |-> kind, intent |-> intent, confidence |-> confidence, params |-> params]

\* what extract_intent_and_params hands back
Result(intent, params, confidence, error) ==
    [raised |-> FALSE, intent |-> intent, params |-> params,
     confidence |-> confidence, error |-> error]
\* the call ends in an exception
Raises(text) ==
    [raised |-> TRUE, intent |-> None, params |-> EmptyDict, confidence |-> 0, error |-> text]

NoResult(error) == Result(None, EmptyDict, 0, error)

DefaultAgentsBackup == <<"search.latest_from", "search.find", "search.summarize",
                         "email.send", "calendar.create", "todo.add">>
DefaultAgentsCurrent == <<"search.latest_from", "email.send", "calendar.create", "todo.add">>

\* if intent and intent not in available_agents
intent_rejected(intent, available_agents) ==
    /\ intent.t = "str"
    /\ intent.name # ""
    /\ intent.name \notin Range(available_agents)

allowlisted_intent(intent, available_agents) ==
    IF intent.t = "null" \/ intent_rejected(intent, available_agents)
    THEN None ELSE Some(intent.name)

\* float(result.get("confidence", 0.5)), 0.0 for a rejected intent
read_confidence(reply, rejected) ==
    IF rejected THEN Ok(F("fin", 0))
    ELSE IF reply.confidence = None THEN Ok(F("fin", 50))
    ELSE py_float(Val(reply.confidence))

\* the "limit" entry: clamped to [1, hi], the default on ValueError or
\* TypeError and without the key; OverflowError is not caught here
norm_limit(params, hi, dflt) ==
    IF ~Has(params, "limit") THEN Ok(dflt)
    ELSE LET n == py_int(params["limit"])
         IN  IF n.exc = "" THEN Ok(clamp_int(1, hi, n.val))
             ELSE IF n.exc \in {"TypeError", "ValueError"} THEN Ok(dflt)
             ELSE n

\* an optional entry clamped to [lo, hi]; dropped on ValueError or TypeError
norm_clamped(params, key, lo, hi) ==
    IF ~Has(params, key) THEN Ok(None)
    ELSE LET n == py_int(params[key])
         IN  IF n.exc = "" THEN Ok(Some(clamp_int(lo, hi, n.val)))
             ELSE IF n.exc \in {"TypeError", "ValueError"} THEN Ok(None)
             ELSE Exc(n.exc, None)

\* normalized["offset"] = max(0, int(params.get("offset", 0)))
norm_offset(params) ==
    IF ~Has(params, "offset") THEN Ok(0)
    ELSE LET n == py_int(params["offset"])
         IN  IF n.exc = "" THEN Ok(Max2(0, n.val))
             ELSE IF n.exc \in {"TypeError", "ValueError"} THEN Ok(0)
             ELSE n

\* str(params["sender"]).lower().strip() when the entry is truthy
norm_sender(params) ==
    IF Has(params, "sender") /\ truthy(params["sender"])
    THEN Some(Strip(Lower(params["sender"].s))) ELSE None

PutSome(d, k, o) == IF o = None THEN d ELSE Put(d, k, Val(o))

\* _validate_and_normalize_result of the backup module
validate_backup(reply, available_agents) ==
    LET rejected == intent_rejected(reply.intent, available_agents)
        intent == allowlisted_intent(reply.intent, available_agents)
        \* params = result.get("params", {}) or {}
        params == IF reply.params.t = "dict" THEN reply.params.d ELSE EmptyDict
        \* a non-empty string has no .get
        bad_params == reply.params.t = "str"
        \* float(...) is evaluated before the allowlist test
        conf0 == read_confidence(reply, FALSE)
        conf == IF rejected THEN Ok(F("fin", 0)) ELSE conf0
        is_find == intent = Some("search.find")
        lim == norm_limit(params, IF is_find THEN 200 ELSE 50, IF is_find THEN 10 ELSE 5)
        off == IF is_find THEN norm_offset(params) ELSE Ok(0)
        days == norm_clamped(params, "date_window_days", 1, 365)
        decay == norm_clamped(params, "decay_days", 1, 30)
        n1 == PutSome(EmptyDict, "sender", norm_sender(params))
        n2 == Put(n1, "limit", lim.val)
        n3 == IF is_find THEN Put(n2, "offset", off.val) ELSE n2
        n4 == PutSome(n3, "date_window_days", days.val)
        n5 == PutSome(n4, "decay_days", decay.val)
    IN  IF conf0.exc # "" THEN Raises(conf0.exc)
        ELSE IF bad_params THEN Raises("AttributeError")
        ELSE IF lim.exc # "" THEN Raises(lim.exc)
        ELSE IF off.exc # "" THEN Raises(off.exc)
        ELSE IF days.exc # "" THEN Raises(days.exc)
        ELSE IF decay.exc # "" THEN Raises(decay.exc)
        ELSE Result(intent, n5, clamp_confidence(conf.val).v, "")

\* _validate_and_normalize_result of the current module: limit always in
\* [1, 50]; offset and decay_days are not copied
validate_current(reply, available_agents) ==
    LET rejected == intent_rejected(reply.intent, available_agents)
        intent == allowlisted_intent(reply.intent, available_agents)
        \* params = result["params"]; `key in "a string"` is a substring test
        \* that finds none of the keys
        params == IF reply.params.t = "dict" THEN reply.params.d ELSE EmptyDict
        \* `"sender" in None` raises TypeError
        bad_params == reply.params.t = "null"
        conf == read_confidence(reply, rejected)
        lim == norm_limit(params, 50, 5)
        days == norm_clamped(params, "date_window_days", 1, 365)
        n1 == PutSome(EmptyDict, "sender", norm_sender(params))
        n2 == Put(n1, "limit", lim.val)
        n3 == PutSome(n2, "date_window_days", days.val)
    IN  IF conf.exc # "" THEN Raises(conf.exc)
        ELSE IF bad_params THEN Raises("TypeError")
        ELSE IF lim.exc # "" THEN Raises(lim.exc)
        ELSE IF days.exc # "" THEN Raises(days.exc)
        ELSE Result(intent, n3, clamp_confidence(conf.val).v, "")

----------------------------------------------------------------------------
(* _fallback_intent_detection.  A text is the sequence of its words (the   *)
(* text split at whitespace); a regular expression with \s+ in it matches  *)
(* across two neighbouring words.                                          *)

Digits == {"0", "1", "2", "3", "4", "5", "6", "7", "8", "9"}
\* \w after .lower()
WordChars == Range(LowerLetters) \cup Digits \cup {"_"}
\* [a-z0-9_.-]
AddrChars == WordChars \cup {".", "-"}

\* the longest prefix (suffix) of tok made of characters of cs
LeadRun(tok, cs) ==
    LET n == CHOOSE i \in 0..Len(tok) :
                /\ \A j \in 1..i : tok[j] \in cs
                /\ (i < Len(tok) => tok[i + 1] \notin cs)
    IN  SubSeq(tok, 1, n)
TrailRun(tok, cs) ==
    LET n == CHOOSE i \in 0..Len(tok) :
                /\ \A j \in (Len(tok) - i + 1)..Len(tok) : tok[j] \in cs
                /\ (i < Len(tok) => tok[Len(tok) - i] \notin cs)
    IN  SubSeq(tok, Len(tok) - n + 1, Len(tok))

EndsWith(s, suf) == Len(s) >= Len(suf) /\ SubSeq(s, Len(s) - Len(suf) + 1, Len(s)) = suf
DropLast(s, n) == SubSeq(s, 1, Len(s) - n)

MinOf(S) == CHOOSE x \in S : \A y \in S : x <= y

DigitVal(c) ==
    CASE c = "0" -> 0 [] c = "1" -> 1 [] c = "2" -> 2 [] c = "3" -> 3 [] c = "4" -> 4
      [] c = "5" -> 5 [] c = "6" -> 6 [] c = "7" -> 7 [] c = "8" -> 8 [] OTHER -> 9

RECURSIVE DigitsVal(_)
DigitsVal(ds) == IF ds = <<>> THEN 0 ELSE 10 * DigitsVal(DropLast(ds, 1)) + DigitVal(ds[Len(ds)])

\* CPython refuses int() of a decimal string of more than
\* sys.int_max_str_digits (4300) digits with ValueError; the model scales
\* that length down
MaxIntDigits == 2

\* int(digits)
int_of_digits(ds) == IF Len(ds) > MaxIntDigits THEN Exc("ValueError", 0) ELSE Ok(DigitsVal(ds))

W_from == <<"f", "r", "o", "m">>
W_email == <<"e", "m", "a", "i", "l">>
W_emailleri == <<"e", "m", "a", "i", "l", "l", "e", "r", "i">>
W_mailler == <<"m", "a", "i", "l", "l", "e", "r">>
W_gelen == <<"g", "e", "l", "e", "n">>
W_dan == <<"'", "d", "a", "n">>
W_den == <<"'", "d", "e", "n">>
W_about == <<"a", "b", "o", "u", "t">>
W_son == <<"s", "o", "n">>
W_last == <<"l", "a", "s", "t">>
W_tane == <<"t", "a", "n", "e">>

email_keywords == { <<"e", "m", "a", "i", "l">>, <<"e", "m", "a", "i", "l", "l", "e", "r", "i">>, <<"e", "-", "m", "a", "i", "l">>, <<"p", "o", "s", "t", "a">>, <<"m", "e", "s", "a", "j">>, <<"m", "a", "i", "l", "l", "e", "r">>, <<"m", "a", "i", "l">>, <<"m", "a", "i", "l", "s">> }

\* any(keyword in text_lower for keyword in email_keywords)
has_email_cue(toks) == \E i \in 1..Len(toks) : \E k \in email_keywords : Contains(toks[i], k)

NoMatch == [found |-> FALSE, g1 |-> <<>>, g2 |-> <<>>]
Match(g1, g2) == [found |-> TRUE, g1 |-> g1, g2 |-> g2]

\* re.search(r"(\w+)<suf>\s+gelen", t): (\w+)'dan gelen, (\w+)'den gelen
search_gelen(toks, suf) ==
    LET hits == {i \in 1..(Len(toks) - 1) :
                    /\ EndsWith(toks[i], suf)
                    /\ TrailRun(DropLast(toks[i], Len(suf)), WordChars) # <<>>
                    /\ StartsWith(toks[i + 1], W_gelen)}
    IN  IF hits = {} THEN NoMatch
        ELSE Match(TrailRun(DropLast(toks[MinOf(hits)], Len(suf)), WordChars), <<>>)

\* re.search(r"<word>\s+(<cs>+)", t): from\s+(\w+), last\s+(\d+), ...
search_after(toks, word, cs) ==
    LET hits == {i \in 1..(Len(toks) - 1) :
                    EndsWith(toks[i], word) /\ LeadRun(toks[i + 1], cs) # <<>>}
    IN  IF hits = {} THEN NoMatch ELSE Match(LeadRun(toks[MinOf(hits) + 1], cs), <<>>)

\* re.search(r"(<cs>+)\s+<word>", t): (\w+)\s+email, (\d+)\s+tane, ...
search_before(toks, cs, words) ==
    LET hits == {i \in 1..(Len(toks) - 1) :
                    /\ TrailRun(toks[i], cs) # <<>>
                    /\ \E wd \in words : StartsWith(toks[i + 1], wd)}
    IN  IF hits = {} THEN NoMatch ELSE Match(TrailRun(toks[MinOf(hits)], cs), <<>>)

\* re.search(r"([a-z0-9_.-]+)@([a-z0-9_.-]+)", t)
search_address(toks) ==
    LET at(tok) == {q \in 2..(Len(tok) - 1) :
                        /\ tok[q] = "@"
                        /\ tok[q - 1] \in AddrChars /\ tok[q + 1] \in AddrChars}
        hits == {i \in 1..Len(toks) : at(toks[i]) # {}}
    IN  IF hits = {} THEN NoMatch
        ELSE LET tok == toks[MinOf(hits)]
                 q == MinOf(at(tok))
             IN  Match(TrailRun(SubSeq(tok, 1, q - 1), AddrChars),
                       LeadRun(SubSeq(tok, q + 1, Len(tok)), AddrChars))

\* the first pattern of the list that matches
RECURSIVE first_match(_)
first_match(ms) ==
    IF ms = <<>> THEN NoMatch
    ELSE IF Head(ms).found THEN Head(ms) ELSE first_match(Tail(ms))

\* the limit loop: son\s+(\d+), last\s+(\d+), (\d+)\s+tane; int() of the
\* first pattern that matches
limit_match(toks) ==
    first_match(<<search_after(toks, W_son, Digits), search_after(toks, W_last, Digits),
                  search_before(toks, Digits, {W_tane})>>)

\* the fallback of the current module
fallback_current(text) ==
    LET toks == [i \in 1..Len(text) |-> Lower(text[i])]
        sender == first_match(<<search_gelen(toks, W_dan), search_gelen(toks, W_den),
                                search_after(toks, W_from, WordChars),
                                search_before(toks, WordChars, {W_email}),
                                search_before(toks, WordChars, {W_emailleri, W_mailler})>>)
        lm == limit_match(toks)
        n == int_of_digits(lm.g1)
    IN  IF has_email_cue(toks) /\ sender.found
        THEN IF lm.found /\ n.exc # "" THEN Raises(n.exc)
             ELSE Result(Some("search.latest_from"),
                         Put(Put(EmptyDict, "sender", sender.g1), "limit",
                             IF lm.found THEN Min2(50, Max2(1, n.val)) ELSE 5),
                         70, "")
        ELSE NoResult("")

\* the characters of the texts of the model
TextChars == AddrChars \cup {"'", "@", "?"}

\* re.search(r"(?:ile\s+ilgili|hakkında|about)\s+([^\?\.]+)", t): the words
\* after "about" up to the first "?" or "."; the texts of the model use no
\* other topic cue
RECURSIVE topic_words(_)
topic_words(toks) ==
    IF toks = <<>> THEN <<>>
    ELSE LET run == LeadRun(Head(toks), TextChars \ {"?", "."})
         IN  IF run = Head(toks) THEN <<run>> \o topic_words(Tail(toks))
             ELSE IF run = <<>> THEN <<>> ELSE <<run>>

search_topic(toks) ==
    LET hits == {i \in 1..(Len(toks) - 1) :
                    EndsWith(toks[i], W_about) /\ toks[i + 1][1] \notin {"?", "."}}
    IN  IF hits = {} THEN <<>>
        ELSE topic_words(SubSeq(toks, MinOf(hits) + 1, Len(toks)))

\* the fallback of the backup module
fallback_backup(text) ==
    LET toks == [i \in 1..Len(text) |-> Lower(text[i])]
        m == first_match(<<search_gelen(toks, W_dan), search_gelen(toks, W_den),
                           search_after(toks, W_from, AddrChars),
                           search_address(toks),
                           search_before(toks, AddrChars, {W_email}),
                           search_before(toks, AddrChars, {W_emailleri, W_mailler})>>)
        is_address == m.found /\ m.g2 # <<>>
        is_domain == m.found /\ ~is_address /\ "." \in Range(m.g1)
        sender == IF m.found /\ ~is_domain THEN Some(m.g1) ELSE None
        domain == IF is_address THEN Some(m.g2) ELSE IF is_domain THEN Some(m.g1) ELSE None
        topic == search_topic(toks)
        lm == limit_match(toks)
        n == int_of_digits(lm.g1)
        \* try: limit = min(50, max(1, int(...))) except Exception: pass
        limit == IF lm.found /\ n.exc = "" THEN Min2(50, Max2(1, n.val)) ELSE 5
        base == PutSome(PutSome(Put(EmptyDict, "limit", limit), "sender", sender), "domain", domain)
    IN  IF m.found /\ topic # <<>>
        THEN Result(Some("search.find"), Put(base, "keywords", topic), 80, "")
        ELSE IF m.found
        THEN Result(Some("search.latest_from"), base, 70, "")
        ELSE NoResult("")

\* extract_intent_and_params(text, available_agents) with the module's
\* client `oai` present or not and the chat reply it would get
extract_backup(text, available_agents, oai, reply) ==
    LET allowed == IF available_agents = <<>> THEN DefaultAgentsBackup ELSE available_agents
    IN  IF ~oai THEN fallback_backup(text)
        ELSE IF reply.kind = "invalid_json" THEN NoResult("Invalid JSON response")
        ELSE IF reply.kind # "object" THEN NoResult("LLM error")
        ELSE LET r == validate_backup(reply, allowed)
             IN  IF r.raised THEN NoResult("LLM error") ELSE r

extract_current(text, available_agents, oai, reply) ==
    LET allowed == IF available_agents = <<>> THEN DefaultAgentsCurrent ELSE available_agents
    IN  IF ~oai THEN fallback_current(text)
        ELSE IF reply.kind = "invalid_json" THEN NoResult("Invalid JSON response")
        ELSE IF reply.kind # "object" THEN NoResult("LLM error")
        ELSE LET r == validate_current(reply, allowed)
             IN  IF r.raised THEN NoResult("LLM error") ELSE r

extract_intent_and_params(version, text, available_agents, oai, reply) ==
    IF version = "backup" THEN extract_backup(text, available_agents, oai, reply)
    ELSE extract_current(text, available_agents, oai, reply)

----------------------------------------------------------------------------
(* Inputs of the intent router                                             *)

Versions == {"current", "backup"}

TextHello == <<<<"h", "e", "l", "l", "o">>>>
TextFrom == <<<<"e", "m", "a", "i", "l", "s">>, <<"f", "r", "o", "m">>, <<"h", "m", "r", "c">>>>
TextAbout == <<<<"l", "a", "s", "t">>, <<"9", "9">>, <<"e", "m", "a", "i", "l", "s">>, <<"f", "r", "o", "m">>, <<"h", "m", "r", "c">>, <<"a", "b", "o", "u", "t">>, <<"t", "a", "x">>>>
TextDomain == <<<<"f", "r", "o", "m">>, <<"x", ".", "o", "r", "g">>>>
TextZero == <<<<"l", "a", "s", "t">>, <<"0">>, <<"m", "a", "i", "l">>, <<"f", "r", "o", "m">>, <<"B", "o", "b">>>>
TextHuge == <<<<"l", "a", "s", "t">>, <<"9", "9", "9", "9">>, <<"e", "m", "a", "i", "l", "s">>, <<"f", "r", "o", "m">>, <<"b", "o", "b">>>>
TextAddress == <<<<"b", "o", "b", "@", "x", ".", "o", "r", "g">>>>
TextGelen == <<<<"a", "l", "i", "'", "d", "e", "n">>, <<"g", "e", "l", "e", "n">>, <<"s", "o", "n">>, <<"3">>, <<"m", "a", "i", "l">>>>
Texts == {TextHello, TextFrom, TextAbout, TextDomain, TextZero, TextHuge, TextAddress, TextGelen}

AgentLists ==
    { <<>>, <<"email.send">>, <<"search.latest_from", "search.find", "search.summarize">> }

ReplyIntents ==
    { NullIntent, JIntent("str", ""), JIntent("str", "search.latest_from"),
      JIntent("str", "search.find"), JIntent("str", "email.send"), JIntent("str", "bogus") }

ReplyConfidences ==
    { None, Some(JFloat(90)), Some(JFloat(29)), Some(JFloat(-50)), Some(JFloat(150)),
      Some(JInt(7)), Some(J("nan", 0, <<>>)), Some(J("inf", 1, <<>>)), Some(J("inf", -1, <<>>)),
      Some(JNull), Some(JStr(<<"h", "i">>)) }

LimitValues ==
    { JInt(0), JInt(7), JInt(120), JInt(500), JFloat(250), J("numstr", 60, <<>>),
      JStr(<<"a">>), JNull, J("inf", 1, <<>>), J("nan", 0, <<>>) }
OffsetValues == { JInt(-3), JInt(4) }
DaysValues == { JInt(0), JInt(400), JStr(<<"a">>) }
DecayValues == { JInt(0), JInt(45), J("inf", -1, <<>>) }
SenderValues == { JStr(<<" ", "B", "o", "b">>) }

\* dicts with any of the keys present
OptEntry(values) == {None} \cup {Some(v) : v \in values}
ParamDicts ==
    { PutSome(PutSome(PutSome(PutSome(PutSome(EmptyDict, "limit", l), "offset", o),
                              "date_window_days", d), "decay_days", c), "sender", sd) :
        l \in OptEntry(LimitValues), o \in OptEntry(OffsetValues),
        d \in OptEntry(DaysValues), c \in OptEntry(DecayValues), sd \in OptEntry(SenderValues) }

NoParams == JParams("absent", EmptyDict)
OtherParams == { NoParams, JParams("null", EmptyDict), JParams("str", EmptyDict),
                 JParams("dict", EmptyDict) }

AnyReply == Reply("raises", NullIntent, None, NoParams)

Replies ==
    { AnyReply, Reply("invalid_json", NullIntent, None, NoParams),
      Reply("array", NullIntent, None, NoParams) }
    \cup { Reply("object", i, c, q) : i \in ReplyIntents, c \in ReplyConfidences, q \in OtherParams }
    \cup { Reply("object", JIntent("str", i), c, JParams("dict", d)) :
             i \in {"search.latest_from", "search.find", "bogus"},
             c \in {None, Some(JFloat(90))}, d \in ParamDicts }

RouterInput(version, text, available_agents, oai, reply) ==
    [version |-> version, text |-> text, available_agents |-> available_agents,
     oai |-> oai, reply |-> reply]

RouterInputs ==
    { RouterInput(v, t, a, FALSE, AnyReply) : v \in Versions, t \in Texts, a \in AgentLists }
    \cup { RouterInput(v, TextFrom, a, TRUE, r) : v \in Versions, a \in AgentLists, r \in Replies }

----------------------------------------------------------------------------
(* The router as a state machine: one call per behaviour                   *)

IdleR ==
    /\ rin = None
    /\ rout = None
    /\ rpc = "off"

InitR ==
    /\ rin \in {Some(x) : x \in RouterInputs}
    /\ rout = None
    /\ rpc = "call"

RIn == Val(rin)
ROut == Val(rout)

RCall == extract_intent_and_params(RIn.version, RIn.text, RIn.available_agents, RIn.oai, RIn.reply)

\* the module has no client: the regex fallback answers
RFallback ==
    /\ rpc = "call"
    /\ ~RIn.oai
    /\ ~RCall.raised
    /\ rout' = Some(RCall)
    /\ rpc' = "done"
    /\ UNCHANGED rin
    /\ UNCHANGED notRouter

\* the fallback raises: the exception leaves extract_intent_and_params
RFallbackRaises ==
    /\ rpc = "call"
    /\ ~RIn.oai
    /\ RCall.raised
    /\ rout' = Some(RCall)
    /\ rpc' = "done"
    /\ UNCHANGED rin
    /\ UNCHANGED notRouter

\* the chat call, the JSON parse or the validation fails: the error result
RLlmError ==
    /\ rpc = "call"
    /\ RIn.oai
    /\ RCall.error # ""
    /\ rout' = Some(RCall)
    /\ rpc' = "done"
    /\ UNCHANGED rin
    /\ UNCHANGED notRouter

\* the reply is validated and normalized
RValidated ==
    /\ rpc = "call"
    /\ RIn.oai
    /\ RCall.error = ""
    /\ rout' = Some(RCall)
    /\ rpc' = "done"
    /\ UNCHANGED rin
    /\ UNCHANGED notRouter

NextR == RFallback \/ RFallbackRaises \/ RLlmError \/ RValidated

----------------------------------------------------------------------------
(* The agent registry and POST /agent/act (api/routers/agent.py, which     *)
(* imports the current intent module)                                      *)

AgentModules == {"search.latest_from", "search.find", "search.summarize"}

\* REGISTRY[name] = fn: a dict keeps the position of a key it already has
register(reg, name) == IF name \in Range(reg) THEN reg ELSE Append(reg, name)

\* a lookup that finds a handler under every name
registry_get_always(reg, name) == Some(name)

\* REGISTRY.get(name): the handler (known by its name) or None
registry_get(reg, name) == IF name \in Range(reg) THEN Some(name) ELSE None

\* list(REGISTRY.keys())
list_agents(reg) == reg

MaxActs == 2

ActRequest(text, params, oai, reply, now) ==
    [text |-> text, params |-> params, oai |-> oai, reply |-> reply, now |-> now]

UserParams ==
    { None, Some(EmptyDict), Some(Put(EmptyDict, "limit", 3)),
      Some(Put(Put(EmptyDict, "sender", <<"z">>), "limit", 7)),
      Some(Put(EmptyDict, "date_window_days", 7)) }

ReplyParams ==
    Put(Put(Put(EmptyDict, "limit", JInt(500)), "date_window_days", JInt(3)),
        "sender", JStr(<<" ", "B", "o", "b">>))

ActReplies ==
    { AnyReply, Reply("invalid_json", NullIntent, None, NoParams) }
    \cup { Reply("object", i, c, q) :
             i \in { NullIntent, JIntent("str", ""), JIntent("str", "search.find"),
                     JIntent("str", "email.send"), JIntent("str", "bogus") },
             c \in { None, Some(JFloat(29)), Some(JFloat(30)), Some(JFloat(90)) },
             q \in { NoParams, JParams("dict", ReplyParams) } }

\* the day on which the request is served (datetime.now(timezone.utc))
Nows == {400}

ActRequests ==
    { ActRequest(t, u, FALSE, AnyReply, n) :
        t \in {TextHello, TextFrom, TextHuge}, u \in UserParams, n \in Nows }
    \cup { ActRequest(TextFrom, u, TRUE, r, n) : u \in UserParams, r \in ActReplies, n \in Nows }

\* a conversion that leaves the params as they are
convert_date_window_skipped(llm_params, now) == llm_params

\* date_from = (now_utc - timedelta(days=days)).isoformat(); the key
\* date_window_days is deleted
convert_date_window(llm_params, now) ==
    IF Has(llm_params, "date_window_days")
    THEN Put(Del(llm_params, "date_window_days"), "date_from", now - llm_params["date_window_days"])
    ELSE llm_params

\* a merge in which the extracted params win
merge_params_router_wins(llm_params, user_params) ==
    IF user_params # None /\ Val(user_params) # EmptyDict
    THEN Updated(Val(user_params), llm_params) ELSE llm_params

\* merged_params: user params override the extracted ones
merge_params(llm_params, user_params) ==
    IF user_params # None /\ Val(user_params) # EmptyDict
    THEN Updated(llm_params, Val(user_params)) ELSE llm_params

Detected(router, intent, params_used, debug) ==
    [router |-> router, intent |-> intent, params_used |-> params_used, debug |-> debug]

\* the test without its confidence threshold
no_match_without_threshold(result) ==
    \/ result.intent = None
    \/ Val(result.intent) = ""

\* if not intent or confidence < 0.3
no_match(result) ==
    \/ result.intent = None
    \/ Val(result.intent) = ""
    \/ result.confidence < 30

\* _detect_intent_and_params_llm(text, user_params), given a result of
\* extract_intent_and_params that did not raise
detect_intent_and_params_llm(reg, req, result) ==
    LET llm_params == convert_date_window(result.params, req.now)
        debug == [confidence |-> result.confidence, available_agents |-> list_agents(reg)]
    IN  IF no_match(result) THEN Detected(result, None, None, debug)
        ELSE Detected(result, result.intent, Some(merge_params(llm_params, req.params)), debug)

ResultBody(message, error, debug, data) ==
    [message |-> message, error |-> error, debug |-> debug, data |-> data]

AgentResponse(intent, params_used, result) ==
    [status |-> 200, intent |-> intent, params_used |-> params_used, result |-> result]

no_match_response(debug) ==
    AgentResponse(None, None, ResultBody(Some("No matching agent in this step."), None, Some(debug), None))

not_found_message(intent) == "Agent '" \o intent \o "' not found in registry."

not_found_response(intent, params_used, debug) ==
    AgentResponse(Some(intent), params_used,
                  ResultBody(Some(not_found_message(intent)), None, Some(debug), None))

\* the exception passed on as a 500 instead
error_response_escaping(text) ==
    [status |-> 500, intent |-> None, params_used |-> None,
     result |-> ResultBody(None, None, None, None)]

\* except Exception as e: 200 with the error in the result
error_response(text) ==
    AgentResponse(None, None, ResultBody(Some("Agent execution failed."), Some(text), None, None))

\* what a handler returns for the params it was given
handler_result(agent, params) == [agent |-> agent, params |-> params]

HandlerErrors == {"connection refused"}

IdleT ==
    /\ registry = <<>>
    /\ tpc = "off"
    /\ treq = None
    /\ tdet = None
    /\ tresp = None
    /\ thandler = <<>>
    /\ traised = None
    /\ nAct = 0

InitT ==
    /\ registry = <<>>
    /\ tpc = "startup"
    /\ treq = None
    /\ tdet = None
    /\ tresp = None
    /\ thandler = <<>>
    /\ traised = None
    /\ nAct = 0

TReq == Val(treq)
TDet == Val(tdet)

\* the extraction the current request gets
TExtract == extract_current(TReq.text, list_agents(registry), TReq.oai, TReq.reply)

\* import of an agent module: register(name, run)
Register(name) ==
    /\ tpc = "startup"
    /\ registry' = register(registry, name)
    /\ UNCHANGED <<tpc, treq, tdet, tresp, thandler, traised, nAct>>
    /\ UNCHANGED notAct

\* the application starts to serve requests
Serve ==
    /\ tpc = "startup"
    /\ tpc' = "idle"
    /\ UNCHANGED <<registry, treq, tdet, tresp, thandler, traised, nAct>>
    /\ UNCHANGED notAct

\* POST /agent/act arrives
TRequest ==
    /\ tpc = "idle"
    /\ nAct < MaxActs
    /\ \E req \in ActRequests : treq' = Some(req)
    /\ tpc' = "detect"
    /\ nAct' = nAct + 1
    /\ UNCHANGED <<registry, tdet, tresp, thandler, traised>>
    /\ UNCHANGED notAct

\* _detect_intent_and_params_llm returns
TDetect ==
    /\ tpc = "detect"
    /\ ~TExtract.raised
    /\ tdet' = Some(detect_intent_and_params_llm(registry, TReq, TExtract))
    /\ tpc' = "dispatch"
    /\ UNCHANGED <<registry, treq, tresp, thandler, traised, nAct>>
    /\ UNCHANGED notAct

\* _detect_intent_and_params_llm raises: the except branch of act answers
TDetectRaises ==
    /\ tpc = "detect"
    /\ TExtract.raised
    /\ traised' = Some([at |-> "detect", text |-> TExtract.error])
    /\ tresp' = Some(error_response(TExtract.error))
    /\ tpc' = "responded"
    /\ UNCHANGED <<registry, treq, tdet, thandler, nAct>>
    /\ UNCHANGED notAct

\* if intent is None: soft "no match"
TNoMatch ==
    /\ tpc = "dispatch"
    /\ TDet.intent = None
    /\ tresp' = Some(no_match_response(TDet.debug))
    /\ tpc' = "responded"
    /\ UNCHANGED <<registry, treq, tdet, thandler, traised, nAct>>
    /\ UNCHANGED notAct

\* registry.get(intent) is None
TNotFound ==
    /\ tpc = "dispatch"
    /\ TDet.intent # None
    /\ registry_get(registry, Val(TDet.intent)) = None
    /\ tresp' = Some(not_found_response(Val(TDet.intent), TDet.params_used, TDet.debug))
    /\ tpc' = "responded"
    /\ UNCHANGED <<registry, treq, tdet, thandler, traised, nAct>>
    /\ UNCHANGED notAct

\* agent_fn(params_used or {}) is called
TCall ==
    /\ tpc = "dispatch"
    /\ TDet.intent # None
    /\ registry_get(registry, Val(TDet.intent)) # None
    /\ thandler' = Append(thandler, [agent |-> Val(registry_get(registry, Val(TDet.intent))),
                                     params |-> Val(TDet.params_used)])
    /\ tpc' = "handler"
    /\ UNCHANGED <<registry, treq, tdet, tresp, traised, nAct>>
    /\ UNCHANGED notAct

\* the handler returns its result
THandlerReturns ==
    /\ tpc = "handler"
    /\ tresp' = Some(AgentResponse(TDet.intent, TDet.params_used,
                        ResultBody(None, None, None,
                                   Some(handler_result(thandler[1].agent, thandler[1].params)))))
    /\ tpc' = "responded"
    /\ UNCHANGED <<registry, treq, tdet, thandler, traised, nAct>>
    /\ UNCHANGED notAct

\* the handler raises: the except branch of act answers
THandlerRaises ==
    /\ tpc = "handler"
    /\ \E e \in HandlerErrors :
        /\ traised' = Some([at |-> "handler", text |-> e])
        /\ tresp' = Some(error_response(e))
    /\ tpc' = "responded"
    /\ UNCHANGED <<registry, treq, tdet, thandler, nAct>>
    /\ UNCHANGED notAct

\* the response is sent
TFinish ==
    /\ tpc = "responded"
    /\ tpc' = "idle"
    /\ treq' = None
    /\ tdet' = None
    /\ tresp' = None
    /\ thandler' = <<>>
    /\ traised' = None
    /\ UNCHANGED <<registry, nAct>>
    /\ UNCHANGED notAct

NextT ==
    \/ \E name \in AgentModules : Register(name)
    \/ Serve
    \/ TRequest
    \/ TDetect
    \/ TDetectRaises
    \/ TNoMatch
    \/ TNotFound
    \/ TCall
    \/ THandlerReturns
    \/ THandlerRaises
    \/ TFinish

----------------------------------------------------------------------------
(* Retrieval: POST /search (api/routers/search.py) and the search.find     *)
(* agent (api/agents/search_find.py) run the same hybrid query and build   *)
(* their responses from its rows                                           *)

\* a value of the final_score column as the driver returns it: kind "num"
\* (v hundredths), "null" (None), "nan", "inf", "ninf"
Score(k, v) == [k |-> k, v |-> v]

\* math.isfinite(float(x))
isfinite(x) == x.k = "num"

\* a hit score taken from the row as it is
hit_score_raw(x) == x

\* if _score is None or not math.isfinite(float(_score)): _score = 0.0
hit_score(x) == IF x.k = "null" \/ ~isfinite(x) THEN Score("num", 0) ELSE x

\* a documents row as the query sees it: title (None for NULL) stands for
\* the pair (title, preview), terms for the words of
\* doc_fts, base for 0.55 * bm25 + 0.35 * vec + 0.03 * decay as the database
\* computes it (hundredths), doc_tags for the names of its tags
SDoc(id, title, terms, ts, len, base, doc_tags) ==
    [id |-> id, title |-> title, terms |-> terms, ts |-> ts, len |-> len,
     base |-> base, tags |-> doc_tags]

W_tax == <<"t", "a", "x">>
W_vat == <<"v", "a", "t">>

T_imp == <<"i", "m", "p">>

Pool ==
    { SDoc("d1", Some("t1"), {W_tax}, 3, 4, Score("num", 50), {}),
      SDoc("d2", Some("t1"), {W_tax}, 2, 4, Score("nan", 0), {}),
      SDoc("d3", Some("t2"), {W_tax, W_vat}, 1, 2, Score("inf", 0), {}),
      SDoc("d4", Some("t3"), {W_tax}, 5, 1, Score("null", 0), {}),
      SDoc("d5", Some(""), {W_tax}, 2, 3, Score("num", 50), {T_imp}),
      SDoc("d6", Some("t1"), {W_tax}, 3, 4, Score("num", 45), {T_imp}),
      SDoc("d7", None, {W_tax}, 3, 4, Score("num", 50), {}) }

\* PARTITION BY COALESCE(title,''), COALESCE(preview,'')
pair_key(d) == IF d.title = None THEN "" ELSE Val(d.title)

MaxSearches == 2

\* a retrieval call: endpoint "search" (SearchRequest) or "find" (params of run)
SearchRequest(endpoint, query, top_k, offset, date_from, boost_tags) ==
    [endpoint |-> endpoint, query |-> query, top_k |-> top_k, offset |-> offset,
     date_from |-> date_from, boost_tags |-> boost_tags]

Queries == { <<" ">>, W_tax, <<" ">> \o W_vat, <<"z">> }
TopKs == {0, 1, 2, 300}
Offsets == {-1, 0, 1, 3}
DateFroms == {None, Some(2)}

BoostTags == {None, Some(<<<<"I", "m", "p">>>>)}

SearchRequests ==
    { SearchRequest(e, q, k, o, d, b) :
        e \in {"search", "find"}, q \in Queries, k \in TopKs, o \in Offsets,
        d \in DateFroms, b \in BoostTags }

\* "top_k": max(1, min(200, req.top_k));  limit = min(200, max(1, limit))
applied_top_k(req) == Max2(1, Min2(200, req.top_k))

\* "offset": max(0, req.offset);  offset = max(0, params.get("offset", 0))
applied_offset(req) == Max2(0, req.offset)

\* boost_tags = [t.lower() for t in (req.boost_tags or [])]; None when empty
lowered_boost_tags(req) ==
    IF req.boost_tags = None \/ Val(req.boost_tags) = <<>> THEN None
    ELSE Some({Lower(Val(req.boost_tags)[i]) : i \in 1..Len(Val(req.boost_tags))})

\* no boost for any document
tag_score_off(d, req) == 0

\* tag_score: 1.0 when one of boost_tags is attached to the document,
\* 0.0 otherwise and without boost_tags
tag_score(d, req) ==
    IF lowered_boost_tags(req) = None THEN 0
    ELSE IF \E t \in d.tags : Lower(t) \in Val(lowered_boost_tags(req)) THEN 1 ELSE 0

\* final_score = base + 0.07 * tag_score, in hundredths; NULL, NaN and the
\* infinities absorb the addition
final_score(d, req) ==
    IF d.base.k = "num" THEN Score("num", d.base.v + 7 * tag_score(d, req)) ELSE d.base

\* scored with its WHERE (the date filter), and the final_score of ranked
scored(docs, req) ==
    { [id |-> d.id, title |-> d.title, terms |-> d.terms, ts |-> d.ts, len |-> d.len,
       base |-> d.base, tags |-> d.tags, final_score |-> final_score(d, req)] :
        d \in {x \in docs : req.date_from # None => x.ts >= Val(req.date_from)} }

\* WHERE q_fts @@ doc_fts OR vec_order > 0.0, without a query vector
ranked(docs, q) == {d \in docs : q \in d.terms}

\* ORDER BY final_score DESC: NULLs first, NaN above every number
ScoreRank(x) ==
    CASE x.k = "null" -> 4
      [] x.k = "nan" -> 3
      [] x.k = "inf" -> 2
      [] x.k = "num" -> 1
      [] OTHER -> 0

ScoreBefore(a, b) ==
    \/ ScoreRank(a) > ScoreRank(b)
    \/ (a.k = "num" /\ b.k = "num" /\ a.v > b.v)

\* ORDER BY final_score DESC, ts DESC, length(plain_text) ASC
RowBefore(a, b) ==
    \/ ScoreBefore(a.final_score, b.final_score)
    \/ /\ ~ScoreBefore(b.final_score, a.final_score)
       /\ (a.ts > b.ts \/ (a.ts = b.ts /\ a.len < b.len))

\* the orders the database may produce for a set of rows (ties are its
\* choice): every sequence of all rows in which no row comes after a row
\* it sorts before
RECURSIVE Orderings(_)
Orderings(S) ==
    IF S = {} THEN {<<>>}
    ELSE UNION { {<<x>> \o o : o \in Orderings(S \ {x})} :
                 x \in {y \in S : \A z \in S : ~RowBefore(z, y)} }

\* dedup, ordered: the rows with rn = 1 of their (title, preview) partition
ordered_all(o) == o
ordered(o) ==
    LET first == {i \in 1..Len(o) : \A j \in 1..(i - 1) : pair_key(o[j]) # pair_key(o[i])}
    IN  [k \in 1..Cardinality(first) |->
            o[CHOOSE i \in first : Cardinality({j \in first : j < i}) = k - 1]]

\* LIMIT top_k OFFSET offset, every row with COUNT(*) OVER () AS total_rows
page_rows(ord, top_k, offset) ==
    LET last == Min2(Len(ord), offset + top_k)
    IN  IF offset >= Len(ord) THEN <<>>
        ELSE [i \in 1..(last - offset) |->
                [id |-> ord[offset + i].id, final_score |-> ord[offset + i].final_score,
                 total_rows |-> Len(ord)]]

SearchResponse(hits, total, has_more, next_offset, error) ==
    [status |-> 200, hits |-> hits, total |-> total, has_more |-> has_more,
     next_offset |-> next_offset, error |-> error]

\* hits=[], total=0, has_more=False, next_offset=None
empty_response(error) == SearchResponse(<<>>, 0, FALSE, None, error)

\* the offset the page arithmetic starts from: req.offset in search, the
\* clamped offset in run
seen_base(req) == IF req.endpoint = "search" THEN req.offset ELSE applied_offset(req)

\* the loop over the rows and the paging fields
build_response(req, rows) ==
    LET total == IF rows = <<>> THEN 0 ELSE rows[Len(rows)].total_rows
        hits == [i \in 1..Len(rows) |->
                    [id |-> rows[i].id, score |-> hit_score(rows[i].final_score)]]
        seen == seen_base(req) + Len(hits)
    IN  SearchResponse(hits, total, seen < total,
                       IF seen < total THEN Some(seen) ELSE None, None)

IdleS ==
    /\ corpus = {}
    /\ spc = "off"
    /\ sreq = None
    /\ sresp = None
    /\ nSearch = 0

InitS ==
    /\ corpus \in SUBSET Pool
    /\ spc = "idle"
    /\ sreq = None
    /\ sresp = None
    /\ nSearch = 0

SReq == Val(sreq)
SResp == Val(sresp)

\* q = (req.query or "").strip()
SQueryText == Strip(SReq.query)

\* a retrieval call arrives
SRequest ==
    /\ spc = "idle"
    /\ nSearch < MaxSearches
    /\ \E req \in SearchRequests : sreq' = Some(req)
    /\ spc' = "query"
    /\ nSearch' = nSearch + 1
    /\ UNCHANGED <<corpus, sresp>>
    /\ UNCHANGED notSearch

\* if not q: the empty response, without a query
SBlank ==
    /\ spc = "query"
    /\ SQueryText = <<>>
    /\ sresp' = Some(empty_response(None))
    /\ spc' = "responded"
    /\ UNCHANGED <<corpus, sreq, nSearch>>
    /\ UNCHANGED notSearch

\* cur.execute(sql, params); rows = cur.fetchall(); the response is built
SQuery ==
    /\ spc = "query"
    /\ SQueryText # <<>>
    /\ \E o \in Orderings(ranked(scored(corpus, SReq), SQueryText)) :
          sresp' = Some(build_response(SReq,
                          page_rows(ordered(o), applied_top_k(SReq), applied_offset(SReq))))
    /\ spc' = "responded"
    /\ UNCHANGED <<corpus, sreq, nSearch>>
    /\ UNCHANGED notSearch

\* the query fails: search raises RuntimeError("db_error: ..."), run
\* returns the empty result with an error text
SDbError ==
    /\ spc = "query"
    /\ SQueryText # <<>>
    /\ sresp' = Some(IF SReq.endpoint = "search"
                     THEN [SearchResponse(<<>>, 0, FALSE, None, Some("db_error")) EXCEPT !.status = 500]
                     ELSE empty_response(Some("Database error")))
    /\ spc' = "responded"
    /\ UNCHANGED <<corpus, sreq, nSearch>>
    /\ UNCHANGED notSearch

\* the response is sent
SFinish ==
    /\ spc = "responded"
    /\ spc' = "idle"
    /\ sreq' = None
    /\ sresp' = None
    /\ UNCHANGED <<corpus, nSearch>>
    /\ UNCHANGED notSearch

NextS == SRequest \/ SBlank \/ SQuery \/ SDbError \/ SFinish

----------------------------------------------------------------------------
----------------------------------------------------------------------------
(* Tag extraction inside ingest_gmail of api/backup/routers/ingest.py:     *)
(* step 3 (_oai_tags with its retry loop) and the merge before step 4      *)

MaxTagRuns == 2

TagC == <<"c">>
TagD == <<"D", " ">>
TagE == <<"e">>
TagF == <<"f">>

\* what the chat model may answer
ChatReplies ==
    { TagReply("list", <<TagB, TagA, TagLa, TagC, TagD, TagE, TagF>>, FALSE),
      TagReply("list", <<TagB>>, TRUE),
      TagReply("tags_object", <<TagB, TagC>>, FALSE),
      TagReply("list_object", <<TagA>>, FALSE),
      TagReply("plain_object", <<>>, FALSE),
      TagReply("scalar", <<>>, FALSE),
      TagReply("unparseable", <<>>, FALSE),
      TagReply("bracketed", <<>>, FALSE),
      TagReply("no_content", <<>>, FALSE) }

\* the tags and label ids a request may come with
MaxTagList == 2
RawTags == {TagA, TagLa, TagB, TagC, TagD, <<>>, <<" ">>}
RawTagLists == UNION { [1..n -> RawTags] : n \in 0..MaxTagList }

\* tags = _normalize_tags(incoming_tags), ENABLE_OAI_TAGS
TagInput(raw, enabled) == [raw |-> raw, tags |-> normalize_tags(raw), enabled |-> enabled]

TagInputs == {TagInput(t, e) : t \in RawTagLists, e \in BOOLEAN}

IdleG ==
    /\ gpc = "idle"
    /\ gin = None
    /\ gattempt = 0
    /\ gcalls = 0
    /\ gseen = ""
    /\ greply = None
    /\ gextra = None
    /\ gtags = <<>>
    /\ nTagRuns = 0

GIn == Val(gin)

\* step 3: _oai_tags(...) if ENABLE_OAI_TAGS else []
GStart ==
    /\ gpc = "idle"
    /\ nTagRuns < MaxTagRuns
    /\ \E i \in TagInputs :
        /\ gin' = Some(i)
        /\ gpc' = IF i.enabled THEN "call" ELSE "merge"
        /\ gextra' = IF i.enabled THEN None ELSE Some(<<>>)
        /\ gtags' = i.tags
    /\ gattempt' = 0
    /\ gcalls' = 0
    /\ gseen' = ""
    /\ greply' = None
    /\ nTagRuns' = nTagRuns + 1
    /\ UNCHANGED notTags

\* client.chat.completions.create answers
GReply ==
    /\ gpc = "call"
    /\ \E reply \in ChatReplies : greply' = Some(reply)
    /\ gcalls' = gcalls + 1
    /\ gseen' = "reply"
    /\ gpc' = "parse"
    /\ UNCHANGED <<gin, gattempt, gextra, gtags, nTagRuns>>
    /\ UNCHANGED notTags

\* the try body on the reply; an exception that left _oai_tags would end
\* the request in the except of ingest_gmail
GParse ==
    /\ gpc = "parse"
    /\ IF clipped_tags(Val(greply)).exc = ""
       THEN /\ gextra' = Some(clipped_tags(Val(greply)).val)
            /\ gpc' = "merge"
       ELSE /\ gextra' = None
            /\ gpc' = "aborted"
    /\ UNCHANGED <<gin, gattempt, gcalls, gseen, greply, gtags, nTagRuns>>
    /\ UNCHANGED notTags

\* except RateLimitError with attempt < RETRY_MAX: sleep and try again
GRetry ==
    /\ gpc = "call"
    /\ gattempt < RETRY_MAX
    /\ gcalls' = gcalls + 1
    /\ gattempt' = gattempt + 1
    /\ UNCHANGED <<gpc, gin, gseen, greply, gextra, gtags, nTagRuns>>
    /\ UNCHANGED notTags

\* except RateLimitError with attempt >= RETRY_MAX: return []
GGiveUp ==
    /\ gpc = "call"
    /\ gattempt >= RETRY_MAX
    /\ gcalls' = gcalls + 1
    /\ gseen' = "rate_limit"
    /\ gextra' = Some(<<>>)
    /\ gpc' = "merge"
    /\ UNCHANGED <<gin, gattempt, greply, gtags, nTagRuns>>
    /\ UNCHANGED notTags

\* the call raises anything else: except Exception: return []
GError ==
    /\ gpc = "call"
    /\ gcalls' = gcalls + 1
    /\ gseen' = "error"
    /\ gextra' = Some(<<>>)
    /\ gpc' = "merge"
    /\ UNCHANGED <<gin, gattempt, greply, gtags, nTagRuns>>
    /\ UNCHANGED notTags

\* if extra_tags: tags = _normalize_tags(tags + extra_tags); step 4 follows
GMerge ==
    /\ gpc = "merge"
    /\ gtags' = merged_tags(GIn.tags, Val(gextra))
    /\ gpc' = "attach"
    /\ UNCHANGED <<gin, gattempt, gcalls, gseen, greply, gextra, nTagRuns>>
    /\ UNCHANGED notTags

\* the request goes on with step 4; the next run may start
GFinish ==
    /\ gpc = "attach"
    /\ gpc' = "idle"
    /\ gin' = None
    /\ gattempt' = 0
    /\ gcalls' = 0
    /\ gseen' = ""
    /\ greply' = None
    /\ gextra' = None
    /\ gtags' = <<>>
    /\ UNCHANGED nTagRuns
    /\ UNCHANGED notTags

NextG == GStart \/ GReply \/ GParse \/ GRetry \/ GGiveUp \/ GError \/ GMerge \/ GFinish

----------------------------------------------------------------------------
(* POST /ask of api/routers/ask.py                                         *)

MaxAsks == 2

L_tr == <<"T", "R">>
L_en == <<"e", "n", "-", "G", "B">>
L_auto == <<"a", "u", "t", "o">>

\* a query as _auto_lang sees it: whether it holds a Turkish letter, and
\* what langdetect answers ("absent": not installed, "raises": detect fails)
AskQuery(text, turkish_letter, detect) ==
    [text |-> text, turkish_letter |-> turkish_letter, detect |-> detect]

AskQueries ==
    { AskQuery(<<" ">>, FALSE, "absent"),
      AskQuery(W_tax, FALSE, "absent"),
      AskQuery(W_tax, FALSE, "raises"),
      AskQuery(W_vat, FALSE, "tr"),
      AskQuery(W_vat, TRUE, "en") }

AskRequest(query, final_n, language, mode, max_sentences, oai) ==
    [query |-> query, final_n |-> final_n, language |-> language, mode |-> mode,
     max_sentences |-> max_sentences, oai |-> oai]

AskRequests ==
    { AskRequest(q, n, l, m, 1, o) :
        q \in AskQueries, n \in {1, 5}, l \in {L_tr, L_en, L_auto},
        m \in {"summary", "email", "brief"}, o \in BOOLEAN }

\* _auto_lang
auto_lang(q) ==
    IF Strip(q.text) = <<>> THEN "simple_unaccent"
    ELSE IF q.turkish_letter THEN "turkish_unaccent"
    ELSE IF q.detect = "tr" THEN "turkish_unaccent"
    ELSE "simple_unaccent"

\* step 1 of ask: the language of the request, else of the query
lang_cfg_of(req) ==
    IF StartsWith(Lower(req.language), <<"t", "r">>) THEN "turkish_unaccent"
    ELSE IF StartsWith(Lower(req.language), <<"e", "n">>) THEN "simple_unaccent"
    ELSE auto_lang(req.query)

\* the prefix without the none_case branch
lang_to_answer_prefix_plain(lang_cfg, none_case) ==
    IF lang_cfg = "turkish_unaccent" THEN "Ozet:" ELSE "Summary:"

\* _lang_to_answer_prefix (the Turkish sentences without their diacritics)
lang_to_answer_prefix(lang_cfg, none_case) ==
    IF lang_cfg = "turkish_unaccent"
    THEN (IF none_case THEN "Eslesen dokuman bulunamadi." ELSE "Ozet:")
    ELSE (IF none_case THEN "No matching documents found." ELSE "Summary:")

\* _limit_sentences on a text given as its sentences: the first max(1, n)
limit_sentences(sentences, n) == SubSeq(sentences, 1, Min2(Max2(1, n), Len(sentences)))

\* what the chat model may answer, as sentences
LlmReplies == { <<>>, <<"Tax is due.">>, <<"Tax is due.", "Pay now.">> }

\* _call_llm without a client: the last message, cut to 800 characters
PromptEcho == <<"Question: ..">>

DocLists == { <<>>, <<"d1">>, <<"d2", "d1">> }

AskResponse(status, answer, used_ids, source_refs, format) ==
    [status |-> status, answer |-> answer, used_ids |-> used_ids,
     sources |-> source_refs, format |-> format]

IdleK ==
    /\ kpc = "idle"
    /\ kreq = None
    /\ kdocs = <<>>
    /\ kresp = None
    /\ kchat = 0
    /\ nAsk = 0

KReq == Val(kreq)
KResp == Val(kresp)

KRequest ==
    /\ kpc = "idle"
    /\ nAsk < MaxAsks
    /\ \E req \in AskRequests : kreq' = Some(req)
    /\ kpc' = "retrieve"
    /\ kdocs' = <<>>
    /\ kresp' = None
    /\ kchat' = 0
    /\ nAsk' = nAsk + 1
    /\ UNCHANGED notAsk

\* steps 3 and 4: _search_ids (LIMIT final_n) and _fetch_docs
KRetrieve ==
    /\ kpc = "retrieve"
    /\ \E docs \in DocLists :
        /\ Len(docs) <= KReq.final_n
        /\ kdocs' = docs
    /\ kpc' = "mode"
    /\ UNCHANGED <<kreq, kresp, kchat, nAsk>>
    /\ UNCHANGED notAsk

\* psycopg2.Error in the retrieval: 500 db_error
KRetrieveError ==
    /\ kpc = "retrieve"
    /\ kresp' = Some(AskResponse(500, <<"db_error">>, <<>>, <<>>, ""))
    /\ kpc' = "responded"
    /\ UNCHANGED <<kreq, kdocs, kchat, nAsk>>
    /\ UNCHANGED notAsk

\* mode "email": the draft is requested whatever the context holds
KEmail ==
    /\ kpc = "mode"
    /\ KReq.mode = "email"
    /\ \E raw \in (IF KReq.oai THEN LlmReplies ELSE {PromptEcho}) :
        kresp' = Some(AskResponse(200, <<"Subject: ..">> \o raw, kdocs, kdocs, "email"))
    /\ kchat' = IF KReq.oai THEN kchat + 1 ELSE kchat
    /\ kpc' = "responded"
    /\ UNCHANGED <<kreq, kdocs, nAsk>>
    /\ UNCHANGED notAsk

\* step 7: any other mode without documents: the one-sentence fallback
KNoDocs ==
    /\ kpc = "mode"
    /\ KReq.mode # "email"
    /\ kdocs = <<>>
    /\ kresp' = Some(AskResponse(200, <<lang_to_answer_prefix(lang_cfg_of(KReq), TRUE)>>,
                                  <<>>, <<>>, ""))
    /\ kpc' = "responded"
    /\ UNCHANGED <<kreq, kdocs, kchat, nAsk>>
    /\ UNCHANGED notAsk

\* summary over the documents: _call_llm, _limit_sentences or the prefix
KSummary ==
    /\ kpc = "mode"
    /\ KReq.mode # "email"
    /\ kdocs # <<>>
    /\ \E raw \in (IF KReq.oai THEN LlmReplies ELSE {PromptEcho}) :
        LET cut == limit_sentences(raw, KReq.max_sentences)
            answer == IF cut # <<>> THEN cut
                      ELSE <<lang_to_answer_prefix(lang_cfg_of(KReq), FALSE)>>
        IN  kresp' = Some(AskResponse(200, answer, kdocs, kdocs, ""))
    /\ kchat' = IF KReq.oai THEN kchat + 1 ELSE kchat
    /\ kpc' = "responded"
    /\ UNCHANGED <<kreq, kdocs, nAsk>>
    /\ UNCHANGED notAsk

\* the chat completion raises: except Exception: 500
KLlmRaises ==
    /\ kpc = "mode"
    /\ KReq.oai
    /\ KReq.mode = "email" \/ kdocs # <<>>
    /\ kchat' = kchat + 1
    /\ kresp' = Some(AskResponse(500, <<"error">>, <<>>, <<>>, ""))
    /\ kpc' = "responded"
    /\ UNCHANGED <<kreq, kdocs, nAsk>>
    /\ UNCHANGED notAsk

KFinish ==
    /\ kpc = "responded"
    /\ kpc' = "idle"
    /\ kreq' = None
    /\ kdocs' = <<>>
    /\ kresp' = None
    /\ kchat' = 0
    /\ UNCHANGED nAsk
    /\ UNCHANGED notAsk

NextK == KRequest \/ KRetrieve \/ KRetrieveError \/ KEmail \/ KNoDocs \/ KSummary \/ KLlmRaises \/ KFinish

----------------------------------------------------------------------------
(* _embed_with_retry of the backup ingest router: batches of EMBED_BATCH   *)
(* texts, each with its own retry loop                                     *)

EMBED_BATCH == 64
RETRY_BASE_SLEEP == 1
MaxEmbedRuns == 2

RECURSIVE Pow2(_)
Pow2(n) == IF n = 0 THEN 1 ELSE 2 * Pow2(n - 1)

\* what client.embeddings.create may raise: the class and str(e)
ProviderError(cls, msg) == [cls |-> cls, msg |-> msg]
ProviderErrors ==
    { ProviderError("RateLimitError", <<"4","2","9">>),
      ProviderError("APITimeoutError", <<"R","e","q","u","e","s","t"," ","T","i","m","e","o","u","t">>),
      ProviderError("APIStatusError", <<"E","r","r","o","r"," ","5","0","3">>),
      ProviderError("APIStatusError", <<"B","a","d"," ","G","a","t","e","w","a","y">>),
      ProviderError("APIStatusError", <<"t","e","m","p","o","r","a","r","i","l","y"," ","d","o","w","n">>),
      ProviderError("AuthenticationError", <<"i","n","v","a","l","i","d"," ","k","e","y">>) }

TransientMarks ==
    { <<"t","i","m","e","o","u","t">>, <<"5","0","3">>,
      <<"b","a","d"," ","g","a","t","e","w","a","y">>,
      <<"t","e","m","p","o","r","a","r","i","l","y">> }

\* any(x in msg for x in (...)) with msg = str(e).lower()
is_transient(e) == \E x \in TransientMarks : Contains(Lower(e.msg), x)

attempts_left_inclusive(attempt) == attempt <= RETRY_MAX
\* attempt < RETRY_MAX (and its negation, attempt >= RETRY_MAX: raise)
attempts_left(attempt) == attempt < RETRY_MAX

\* the except clause taken and whether it retries
retries(e, attempt) ==
    IF e.cls = "RateLimitError" THEN attempts_left(attempt)
    ELSE is_transient(e) /\ attempts_left(attempt)

\* the texts handed to the call: none, one, a full batch, a batch and one more
EmbedInputLens == {0, 1, EMBED_BATCH, EMBED_BATCH + 1}
EmbedInput(n) == [i \in 1..n |-> IF i % 2 = 1 THEN <<"a">> ELSE <<"b", "c">>]

\* batch = inputs[k: k + EMBED_BATCH]
batch_of(inputs, k) ==
    SubSeq(inputs, k + 1, IF k + EMBED_BATCH < Len(inputs) THEN k + EMBED_BATCH ELSE Len(inputs))

IdleE ==
    /\ epc = "idle"
    /\ ein = <<>>
    /\ ek = 0
    /\ eattempt = 0
    /\ ecalls = 0
    /\ esleeps = <<>>
    /\ eerr = None
    /\ eout = <<>>
    /\ eres = None
    /\ nEmbedRuns = 0

\* out = []; for k in range(0, len(inputs), EMBED_BATCH): ... attempt = 0
EStart ==
    /\ epc = "idle"
    /\ nEmbedRuns < MaxEmbedRuns
    /\ \E n \in EmbedInputLens :
        /\ ein' = EmbedInput(n)
        /\ epc' = IF n = 0 THEN "returned" ELSE "call"
        /\ eres' = IF n = 0 THEN Some(Ok(<<>>)) ELSE None
    /\ ek' = 0
    /\ eattempt' = 0
    /\ ecalls' = 0
    /\ esleeps' = <<>>
    /\ eerr' = None
    /\ eout' = <<>>
    /\ nEmbedRuns' = nEmbedRuns + 1
    /\ UNCHANGED notEmbed

\* the provider answers: out.extend(...); break; then the next batch or return
ECallOk ==
    /\ epc = "call"
    /\ LET batch == batch_of(ein, ek)
           out == eout \o [i \in 1..Len(batch) |-> embed_text(batch[i])]
           last == ek + EMBED_BATCH >= Len(ein)
       IN /\ eout' = out
          /\ epc' = IF last THEN "returned" ELSE "call"
          /\ eres' = IF last THEN Some(Ok(out)) ELSE None
          /\ ek' = IF last THEN ek ELSE ek + EMBED_BATCH
          /\ ecalls' = IF last THEN ecalls + 1 ELSE 0
          /\ eattempt' = IF last THEN eattempt ELSE 0
          /\ esleeps' = IF last THEN esleeps ELSE <<>>
    /\ eerr' = None
    /\ UNCHANGED <<ein, nEmbedRuns>>
    /\ UNCHANGED notEmbed

\* the provider raises and the loop sleeps and tries again
ECallRetry ==
    /\ epc = "call"
    /\ \E e \in ProviderErrors :
        /\ retries(e, eattempt)
        /\ eerr' = Some(e)
    /\ esleeps' = Append(esleeps, RETRY_BASE_SLEEP * Pow2(eattempt))
    /\ eattempt' = eattempt + 1
    /\ ecalls' = ecalls + 1
    /\ UNCHANGED <<epc, ein, ek, eout, eres, nEmbedRuns>>
    /\ UNCHANGED notEmbed

\* the provider raises and the error leaves _embed_with_retry
ECallRaise ==
    /\ epc = "call"
    /\ \E e \in ProviderErrors :
        /\ ~retries(e, eattempt)
        /\ eres' = Some(Exc(e.cls, e.msg))
        /\ eerr' = Some(e)
    /\ epc' = "raised"
    /\ ecalls' = ecalls + 1
    /\ UNCHANGED <<ein, ek, eattempt, esleeps, eout, nEmbedRuns>>
    /\ UNCHANGED notEmbed

EFinish ==
    /\ epc \in {"returned", "raised"}
    /\ epc' = "idle"
    /\ ein' = <<>>
    /\ ek' = 0
    /\ eattempt' = 0
    /\ ecalls' = 0
    /\ esleeps' = <<>>
    /\ eerr' = None
    /\ eout' = <<>>
    /\ eres' = None
    /\ UNCHANGED nEmbedRuns
    /\ UNCHANGED notEmbed

NextE == EStart \/ ECallOk \/ ECallRetry \/ ECallRaise \/ EFinish

----------------------------------------------------------------------------
(* The chunkers as processes: the window loop of _chunk_text one iteration *)
(* at a time, and create_chunks of the app router                          *)

MaxBody == 8
MaxChunkRuns == 1

BodyLetters == <<"a","b","c","d","e","f","g","h","i","j","k","l">>

\* a body of n characters, all different, with a blank at position p (p = 0: none)
BodyOf(n, p) == [i \in 1..n |-> IF i = p THEN " " ELSE BodyLetters[i]]
ChunkBodies == { BodyOf(n, p) : n \in 0..MaxBody, p \in 0..MaxBody }

\* CHUNK_TARGET_CHARS, CHUNK_OVERLAP_CHARS as the environment may set them
ChunkConfig(target, overlap) == [target |-> target, overlap |-> overlap]
DefaultChunkConfig == ChunkConfig(CHUNK_TARGET, CHUNK_OVERLAP)
ChunkConfigs ==
    { DefaultChunkConfig, ChunkConfig(3, 1), ChunkConfig(3, 2), ChunkConfig(2, 0) }

\* j = min(n, i + CHUNK_TARGET)
window_end(n, i, target) == Min2(n, i + target)

next_start_wide(j, overlap) == j - overlap - 1
next_start_rewind(j, overlap) == Max2(0, j - 3 * overlap)
\* i = j - CHUNK_OVERLAP
next_start(j, overlap) == j - overlap

\* chunk = s[i:j].strip(); if chunk: chunks.append(chunk)
with_window(chs, s, i, j) ==
    LET chunk == Strip(Slice(s, i, j))
    IN  IF chunk # <<>> THEN Append(chs, chunk) ELSE chs

\* the merge loop and the final filter of _chunk_text
merged_and_kept(chs) ==
    SelectSeq(chunk_merge(chs, <<>>, <<>>), LAMBDA c : Len(c) >= CHUNK_MIN_KEEP)

EmailSubjects == { <<>>, <<"S">>, <<"S","u","b","j">> }
EmailBodies == { BodyOf(n, 0) : n \in {0, 1, MaxBody} }

IdleC ==
    /\ cpc = "idle"
    /\ ckind = ""
    /\ ccfg = DefaultChunkConfig
    /\ cbody = <<>>
    /\ ci = 0
    /\ cwin = <<>>
    /\ cout = <<>>
    /\ nChunkRuns = 0

\* s = (s or "").strip(); if not s: return []; chunks = []; n = len(s); i = 0
CStart ==
    /\ cpc = "idle"
    /\ nChunkRuns < MaxChunkRuns
    /\ \E cfg \in ChunkConfigs, body \in ChunkBodies :
        /\ ccfg' = cfg
        /\ cbody' = Strip(body)
        /\ cpc' = IF Strip(body) = <<>> THEN "done" ELSE "window"
    /\ ckind' = "window"
    /\ ci' = 0
    /\ cwin' = <<>>
    /\ cout' = <<>>
    /\ nChunkRuns' = nChunkRuns + 1
    /\ UNCHANGED notChunk

\* an iteration of the window loop that goes on: j < n, i = j - CHUNK_OVERLAP
CWindowNext ==
    /\ cpc = "window"
    /\ LET j == window_end(Len(cbody), ci, ccfg.target)
       IN /\ j < Len(cbody)
          /\ cwin' = with_window(cwin, cbody, ci, j)
          /\ ci' = next_start(j, ccfg.overlap)
    /\ UNCHANGED <<cpc, ckind, ccfg, cbody, cout, nChunkRuns>>
    /\ UNCHANGED notChunk

\* the iteration that breaks (j >= n), then the merge and the filter
CWindowLast ==
    /\ cpc = "window"
    /\ LET j == window_end(Len(cbody), ci, ccfg.target)
       IN /\ j >= Len(cbody)
          /\ cwin' = with_window(cwin, cbody, ci, j)
          /\ cout' = merged_and_kept(with_window(cwin, cbody, ci, j))
    /\ cpc' = "done"
    /\ UNCHANGED <<ckind, ccfg, cbody, ci, nChunkRuns>>
    /\ UNCHANGED notChunk

\* create_chunks(subject, cleaned_body) of the app router
CEmail ==
    /\ cpc = "idle"
    /\ nChunkRuns < MaxChunkRuns
    /\ \E subject \in EmailSubjects, body \in EmailBodies :
        /\ cbody' = body
        /\ cout' = [k \in 1..Len(create_chunks(subject, body)) |->
                       create_chunks(subject, body)[k].text]
    /\ ckind' = "email"
    /\ cpc' = "done"
    /\ ccfg' = DefaultChunkConfig
    /\ ci' = 0
    /\ cwin' = <<>>
    /\ nChunkRuns' = nChunkRuns + 1
    /\ UNCHANGED notChunk

CFinish ==
    /\ cpc = "done"
    /\ cpc' = "idle"
    /\ ckind' = ""
    /\ ccfg' = DefaultChunkConfig
    /\ cbody' = <<>>
    /\ ci' = 0
    /\ cwin' = <<>>
    /\ cout' = <<>>
    /\ UNCHANGED nChunkRuns
    /\ UNCHANGED notChunk

NextC == CStart \/ CWindowNext \/ CWindowLast \/ CEmail \/ CFinish

----------------------------------------------------------------------------
(* A client that follows next_offset: the same request re-issued with      *)
(* offset = next_offset until has_more is false, on an unchanging store    *)

MaxLoops == 1

PageLimits == {1, 2, 200}

PageRequests ==
    { SearchRequest(e, q, k, 0, None, b) :
        e \in {"search", "find"}, q \in Queries, k \in PageLimits, b \in BoostTags }

IdleP ==
    /\ ppc = "off"
    /\ pcorpus = {}
    /\ preq = None
    /\ pgot = <<>>
    /\ perr = FALSE
    /\ nLoops = 0

InitP ==
    /\ ppc = "idle"
    /\ pcorpus \in SUBSET Pool
    /\ preq = None
    /\ pgot = <<>>
    /\ perr = FALSE
    /\ nLoops = 0

PReq == Val(preq)

\* what the endpoint answers to req over the store, the database ordering
\* the rows as o
page_response(req, o) ==
    IF Strip(req.query) = <<>> THEN empty_response(None)
    ELSE build_response(req, page_rows(ordered(o), applied_top_k(req), applied_offset(req)))

PageOrderings(req) == Orderings(ranked(scored(pcorpus, req), Strip(req.query)))

hit_ids(resp) == [i \in 1..Len(resp.hits) |-> resp.hits[i].id]

\* the first request, at offset 0
PStart ==
    /\ ppc = "idle"
    /\ nLoops < MaxLoops
    /\ \E req \in PageRequests : preq' = Some(req)
    /\ ppc' = "fetch"
    /\ pgot' = <<>>
    /\ perr' = FALSE
    /\ nLoops' = nLoops + 1
    /\ UNCHANGED pcorpus
    /\ UNCHANGED notPage

\* a page with has_more: the next request has offset = next_offset
PFetchMore ==
    /\ ppc = "fetch"
    /\ \E o \in PageOrderings(PReq) :
        LET resp == page_response(PReq, o)
        IN  /\ resp.has_more
            /\ pgot' = pgot \o hit_ids(resp)
            /\ preq' = Some([PReq EXCEPT !.offset = Val(resp.next_offset)])
    /\ UNCHANGED <<ppc, pcorpus, perr, nLoops>>
    /\ UNCHANGED notPage

\* a page without has_more ends the loop
PFetchLast ==
    /\ ppc = "fetch"
    /\ \E o \in PageOrderings(PReq) :
        LET resp == page_response(PReq, o)
        IN  /\ ~resp.has_more
            /\ pgot' = pgot \o hit_ids(resp)
    /\ ppc' = "done"
    /\ UNCHANGED <<pcorpus, preq, perr, nLoops>>
    /\ UNCHANGED notPage

\* the query fails (500 from search, an error text and no hits from run)
PDbError ==
    /\ ppc = "fetch"
    /\ Strip(PReq.query) # <<>>
    /\ perr' = TRUE
    /\ ppc' = "done"
    /\ UNCHANGED <<pcorpus, preq, pgot, nLoops>>
    /\ UNCHANGED notPage

PFinish ==
    /\ ppc = "done"
    /\ ppc' = "idle"
    /\ preq' = None
    /\ pgot' = <<>>
    /\ perr' = FALSE
    /\ UNCHANGED <<pcorpus, nLoops>>
    /\ UNCHANGED notPage

NextP == PStart \/ PFetchMore \/ PFetchLast \/ PDbError \/ PFinish

vars == <<varsB, varsA, varsR, varsT, varsS, varsG, varsK, varsE, varsC, varsP>>

\* the backup ingest router under concurrent requests
InitBackup == InitB /\ InitA /\ IdleR /\ IdleT /\ IdleS /\ IdleG /\ IdleK /\ IdleE /\ IdleC /\ IdleP
SpecBackup == InitBackup /\ [][NextB]_vars

\* the app ingest router under concurrent requests
InitApp == InitB /\ InitA /\ IdleR /\ IdleT /\ IdleS /\ IdleG /\ IdleK /\ IdleE /\ IdleC /\ IdleP
SpecApp == InitApp /\ [][NextA]_vars

\* one call of extract_intent_and_params
InitRouter == InitB /\ InitA /\ InitR /\ IdleT /\ IdleS /\ IdleG /\ IdleK /\ IdleE /\ IdleC /\ IdleP
SpecRouter == InitRouter /\ [][NextR]_vars

\* startup and requests to /agent/act
InitAct == InitB /\ InitA /\ IdleR /\ InitT /\ IdleS /\ IdleG /\ IdleK /\ IdleE /\ IdleC /\ IdleP
SpecAct == InitAct /\ [][NextT]_vars

\* retrieval calls (POST /search and the search.find agent) over a corpus
InitSearch == InitB /\ InitA /\ IdleR /\ IdleT /\ InitS /\ IdleG /\ IdleK /\ IdleE /\ IdleC /\ IdleP
SpecSearch == InitSearch /\ [][NextS]_vars

\* tag extraction of the backup ingest router
InitTags == InitB /\ InitA /\ IdleR /\ IdleT /\ IdleS /\ IdleG /\ IdleK /\ IdleE /\ IdleC /\ IdleP
SpecTags == InitTags /\ [][NextG]_vars

\* the /ask endpoint
InitAsk == InitB /\ InitA /\ IdleR /\ IdleT /\ IdleS /\ IdleG /\ IdleK /\ IdleE /\ IdleC /\ IdleP
SpecAsk == InitAsk /\ [][NextK]_vars

\* calls of _embed_with_retry
InitEmbed == InitB /\ InitA /\ IdleR /\ IdleT /\ IdleS /\ IdleG /\ IdleK /\ IdleE /\ IdleC /\ IdleP
SpecEmbed == InitEmbed /\ [][NextE]_vars

\* calls of the two chunkers
InitChunk == InitB /\ InitA /\ IdleR /\ IdleT /\ IdleS /\ IdleG /\ IdleK /\ IdleE /\ IdleC /\ IdleP
SpecChunk == InitChunk /\ [][NextC]_vars

\* the same, with the window loop of _chunk_text running on: a Python loop
\* that can take its next iteration takes it
SpecChunkFair == InitChunk /\ [][NextC]_vars /\ WF_vars(CWindowNext) /\ WF_vars(CWindowLast)

\* a client paging through the result of one retrieval request
InitPage == InitB /\ InitA /\ IdleR /\ IdleT /\ IdleS /\ IdleG /\ IdleK /\ IdleE /\ IdleC /\ InitP
SpecPage == InitPage /\ [][NextP]_vars

----------------------------------------------------------------------------
(* Properties                                                              *)

\* the (item, ord, text) rows of the chunks of item i
ChunksOfItem(cs, i) ==
    {[ord |-> cs[j].ord, text |-> cs[j].text] : j \in {j \in 1..Len(cs) : cs[j].item_id = i}}
CountChunksOfItem(cs, i) == Cardinality({j \in 1..Len(cs) : cs[j].item_id = i})

\* the items of a source with a given content_hash
ItemsWithHash(its, source, h) ==
    {i \in 1..Len(its) : its[i].origin_source = source /\ its[i].content_hash = h}

\* C1: a second ingest of a content_hash that the source already holds
\* leaves exactly one row with that hash in the source, and leaves the
\* chunks of that row as they were (app router; the earlier requests had
\* finished and no other request ran meanwhile).
C1_SecondIngestKeepsOneRow ==
    \A p \in Procs :
        (/\ apc[p] = "done"
         /\ asnap[p] # None
         /\ \A q \in Procs \ {p} : apc[q] = "idle"
         /\ ItemsWithHash(Val(asnap[p]).items, AEmail(p).account_email, email_hash(AEmail(p))) # {})
        => /\ Cardinality(ItemsWithHash(items, AEmail(p).account_email, email_hash(AEmail(p)))) = 1
           /\ \A i \in ItemsWithHash(items, AEmail(p).account_email, email_hash(AEmail(p))) :
                 ChunksOfItem(chunks, i) = ChunksOfItem(Val(asnap[p]).chunks, i)

\* C2: a committed ingest that changes the content_hash of an existing
\* document leaves as that document's chunks exactly the chunker's output
\* for the new content, also when that output is empty (backup router).
C2_HashChangeReplacesChunks ==
    [][\A p \in Procs :
          (/\ bpc[p] = "commit"
           /\ bpc'[p] = "done"
           /\ documents[KeyOf(BDoc(p))] # None
           /\ Val(documents[KeyOf(BDoc(p))]).content_hash # content_hash_of(BDoc(p)))
          => document_chunks'[KeyOf(BDoc(p))] = chunk_rows(chunk_text(BDoc(p).plain_text))]_vars

\* C3: when a step of an ingest fails, the store is as it was when the
\* request began (app router; the request ran with no other writer).
C3_FailedIngestLeavesStore ==
    \A p \in Procs :
        (/\ apc[p] \in {"done", "error"}
         /\ asnap[p] # None
         /\ (apc[p] = "error" \/ aloc[p].chunk_failed))
        => AppStore = Val(asnap[p])

\* the items stored under the key of an email
ItemsWithKey(its, email) ==
    {i \in 1..Len(its) :
        its[i].origin_source = email.account_email /\ its[i].origin_id = email.gmail_id}

\* the chunk rows an ingest of the email writes
ExpectedChunks(email) == Range(create_chunks(email.subject, cleaned_body_of(email)))

\* C4: when two ingests of the same (source, external_id) have both
\* finished without a failure, one row holds the key, and its content_hash
\* and chunks are those of one of the two ingests (app router).
C4_OneWriterWins ==
    (/\ \A p \in Procs : apc[p] = "done" /\ ~aloc[p].chunk_failed
     /\ \A p, q \in Procs :
           /\ AEmail(p).account_email = AEmail(q).account_email
           /\ AEmail(p).gmail_id = AEmail(q).gmail_id)
    => \E p \in Procs :
          /\ Cardinality(ItemsWithKey(items, AEmail(p))) = 1
          /\ \A i \in ItemsWithKey(items, AEmail(p)) :
                /\ items[i].content_hash = email_hash(AEmail(p))
                /\ ChunksOfItem(chunks, i) = ExpectedChunks(AEmail(p))
                /\ CountChunksOfItem(chunks, i) = Cardinality(ExpectedChunks(AEmail(p)))

\* C5: the warmup is a one-shot latch: leaving failed warmup requests aside,
\* the warmup request is sent to the provider at most once, so the requests
\* awaiting a warmup answer and the set latch never count above one.
C5_WarmupAtMostOnce ==
    Cardinality({p \in Procs : apc[p] = "warming"}) + (IF warmed_up THEN 1 ELSE 0) <= 1

\* the allowed agents a call works with
EffectiveAgents(rq) ==
    IF rq.available_agents # <<>> THEN rq.available_agents
    ELSE IF rq.version = "backup" THEN DefaultAgentsBackup ELSE DefaultAgentsCurrent

\* C6: the intent extract_intent_and_params returns is null (or the empty
\* string, which every caller reads as no intent) or one of the allowed
\* agents of the call, on the chat path and on the fallback path.
C6_IntentIsAllowed ==
    (rout # None /\ ~ROut.raised)
    => \/ ROut.intent = None
       \/ ROut.intent = Some("")
       \/ Val(ROut.intent) \in Range(EffectiveAgents(RIn))

InRange(d, k, lo, hi) == Has(d, k) => (d[k] >= lo /\ d[k] <= hi)

\* C7: in every result of extract_intent_and_params the confidence is in
\* [0, 1], limit is in [1, 50] for search.latest_from and in [1, 200] for
\* search.find, offset is >= 0, decay_days is in [1, 30] and
\* date_window_days is in [1, 365].
C7_NumbersInRange ==
    (rout # None /\ ~ROut.raised)
    => /\ ROut.confidence >= 0 /\ ROut.confidence <= 100
       /\ (ROut.intent = Some("search.latest_from") => InRange(ROut.params, "limit", 1, 50))
       /\ (ROut.intent = Some("search.find") => InRange(ROut.params, "limit", 1, 200))
       /\ (Has(ROut.params, "offset") => ROut.params["offset"] >= 0)
       /\ InRange(ROut.params, "decay_days", 1, 30)
       /\ InRange(ROut.params, "date_window_days", 1, 365)

\* a reply whose limit, offset, decay_days and date_window_days are all out
\* of range has been normalized for search.find
C7_Witness ==
    /\ rout # None
    /\ ~ROut.raised
    /\ RIn.oai
    /\ RIn.reply.params.t = "dict"
    /\ DOMAIN RIn.reply.params.d = {"limit", "offset", "decay_days", "date_window_days"}
    /\ RIn.reply.params.d["limit"] = JInt(500)
    /\ RIn.reply.params.d["offset"] = JInt(-3)
    /\ RIn.reply.params.d["decay_days"] = JInt(45)
    /\ RIn.reply.params.d["date_window_days"] = JInt(400)
    /\ ROut.intent = Some("search.find")
    /\ ROut.params["limit"] = 200
    /\ ROut.params["offset"] = 0
    /\ ROut.params["decay_days"] = 30
    /\ ROut.params["date_window_days"] = 365

\* the router's answer for the current request is "no match"
RouterSaysNoMatch == TDet.router.intent = None \/ TDet.router.confidence < 30

\* C8: when the router yields a null intent or a confidence below 0.3,
\* /agent/act calls no handler and answers with intent null, params_used
\* null and the message "No matching agent in this step.".
C8_NoMatchIsSoft ==
    (tpc \in {"dispatch", "handler", "responded"} /\ tdet # None /\ RouterSaysNoMatch)
    => /\ thandler = <<>>
       /\ tpc # "handler"
       /\ (tpc = "responded"
           => /\ Val(tresp).intent = None
              /\ Val(tresp).params_used = None
              /\ Val(tresp).result.message = Some("No matching agent in this step."))

\* an allowed intent of confidence 0.29, in a request that carries user
\* params, has been answered
C8_Witness ==
    /\ tpc = "responded"
    /\ tdet # None
    /\ TDet.router.intent = Some("search.find")
    /\ TDet.router.confidence = 29
    /\ TReq.params = Some(Put(EmptyDict, "limit", 3))
    /\ Val(tresp).result.message = Some("No matching agent in this step.")

\* the detected agent is not registered
IntentNotRegistered == tdet # None /\ TDet.intent # None /\ Val(TDet.intent) \notin Range(registry)

C10_ExceptionIsSoft ==
    (traised # None)
    => /\ tpc = "responded"
       /\ tresp # None
       /\ Val(tresp).status = 200
       /\ Val(tresp).intent = None
       /\ Val(tresp).params_used = None
       /\ Val(tresp).result.error = Some(Val(traised).text)

\* a handler was called, raised, and the request has been answered
C10_Witness ==
    /\ traised # None
    /\ Val(traised).at = "handler"
    /\ thandler # <<>>
    /\ tresp # None
    /\ Val(tresp).result.error = Some("connection refused")

\* the params the router extracted, as they are when the merge is made
RouterParams == convert_date_window(TDet.router.params, TReq.now)

\* C11: when an intent is selected and the request carries user params,
\* params_used has every user key with the user's value, every other
\* router-extracted key with the router's value, and no other key.
C11_UserParamsOverride ==
    (tdet # None /\ TDet.intent # None /\ TReq.params # None)
    => LET user == Val(TReq.params)
           used == Val(TDet.params_used)
       IN  /\ DOMAIN used = DOMAIN user \cup DOMAIN RouterParams
           /\ \A k \in DOMAIN user : used[k] = user[k]
           /\ \A k \in DOMAIN RouterParams \ DOMAIN user : used[k] = RouterParams[k]
           /\ (thandler # <<>> => thandler[1].params = used)

\* the router extracted sender hmrc and limit 5, the user sent limit 3, and
\* the handler was called with sender hmrc and limit 3
C11_Witness ==
    /\ thandler # <<>>
    /\ TReq.params = Some(Put(EmptyDict, "limit", 3))
    /\ TDet.router.params["limit"] = 5
    /\ thandler[1].params["limit"] = 3
    /\ thandler[1].params["sender"] = <<"h", "m", "r", "c">>

\* the request or the router names a date window
NamesDateWindow ==
    \/ Has(TDet.router.params, "date_window_days")
    \/ (TReq.params # None /\ Has(Val(TReq.params), "date_window_days"))

\* C12 (as stated): the params handed to an agent never contain
\* date_window_days, and contain date_from whenever a date window was named.
C12_DateWindowConverted ==
    (thandler # <<>>)
    => /\ ~Has(thandler[1].params, "date_window_days")
       /\ (NamesDateWindow => Has(thandler[1].params, "date_from"))

UserHas(k) == TReq.params # None /\ Has(Val(TReq.params), k)

\* C12 (amended): a date_window_days = N that the router extracted is
\* replaced by date_from = now - N days before the params reach the agent;
\* the user's params are merged afterwards and are not converted, so a
\* date_window_days of the user reaches the agent as it was sent.
C12_RouterWindowConverted ==
    (thandler # <<>>)
    => /\ (~UserHas("date_window_days") => ~Has(thandler[1].params, "date_window_days"))
       /\ (UserHas("date_window_days")
           => thandler[1].params["date_window_days"] = Val(TReq.params)["date_window_days"])
       /\ ((Has(TDet.router.params, "date_window_days") /\ ~UserHas("date_from"))
           => /\ Has(thandler[1].params, "date_from")
              /\ thandler[1].params["date_from"]
                     = TReq.now - TDet.router.params["date_window_days"])

\* the router extracted date_window_days 3 and the handler was called with
\* date_from three days before now and no date_window_days
C12_Witness ==
    /\ thandler # <<>>
    /\ Has(TDet.router.params, "date_window_days")
    /\ TDet.router.params["date_window_days"] = 3
    /\ Has(thandler[1].params, "date_from")
    /\ thandler[1].params["date_from"] = TReq.now - 3
    /\ ~Has(thandler[1].params, "date_window_days")

\* a retrieval call has been answered from the rows of its query
Retrieved == spc = "responded" /\ SResp.status = 200

\* C13: in every retrieval response total >= len(hits), and next_offset is
\* set, with has_more true, exactly when offset + len(hits) < total, offset
\* being the offset the query was run with (never below 0).
C13_PagingFields ==
    Retrieved
    => /\ SResp.total >= Len(SResp.hits)
       /\ (SResp.next_offset # None <=> SResp.has_more)
       /\ (SResp.next_offset # None
             <=> applied_offset(SReq) + Len(SResp.hits) < SResp.total)

\* the deduplicated documents that match the query and the filters
MatchCount ==
    Cardinality({pair_key(d) : d \in ranked(scored(corpus, SReq), SQueryText)})

\* C14: the total of a retrieval response is the number of deduplicated
\* documents that match the query and the filters, whatever limit and
\* offset are.
C14_TotalCountsMatches ==
    (Retrieved /\ SQueryText # <<>> /\ SResp.error = None)
    => SResp.total = MatchCount

\* C15: every score of a retrieval response is a finite number.
C15_ScoresFinite ==
    Retrieved => \A i \in 1..Len(SResp.hits) : isfinite(SResp.hits[i].score)

\* one response holds the rows whose database scores were null (d4), NaN
\* (d2) and infinite (d3), each with score 0.0
C15_Witness ==
    /\ Retrieved
    /\ \A id \in {"d2", "d3", "d4"} :
          \E i \in 1..Len(SResp.hits) :
              SResp.hits[i].id = id /\ SResp.hits[i].score = Score("num", 0)

----------------------------------------------------------------------------
(* Repeat ingest of unchanged content                                      *)

\* a request of the app router that took the unchanged-content path of
\* upsert_email and was processed without an exception
ASkipped(p) == apc[p] = "done" /\ aloc[p].skip_embedding

\* C16, as stated: a successful repeat ingest that hits the early dedup made
\* no embedding call and executed no write on documents, chunks, tags or
\* embeddings (taken for a repeat that runs alone, on an item whose chunks
\* are all stored).
C16_DedupWritesNothing ==
    \A p \in Procs :
        (/\ ASkipped(p)
         /\ \A q \in Procs \ {p} : apc[q] = "idle"
         /\ ChunksOfItem(chunks, aloc[p].item_id) = ExpectedChunks(AEmail(p))) =>
            (~aloc[p].called_provider /\ aloc[p].written = {})

\* C16, amended: on the unchanged-content path the app router answers with
\* the existing item's id, skipped_embedding 1 and no inserted chunk, sends
\* nothing to the embedding provider and writes neither items, emails nor
\* chunks; the only table it may write is the item's tags row.
C16_SkipWritesOnlyTags ==
    \A p \in Procs :
        ASkipped(p) =>
            /\ ingestion_response(aloc[p]).skipped_embedding = 1
            /\ ingestion_response(aloc[p]).inserted_items = 0
            /\ ingestion_response(aloc[p]).updated_items = 0
            /\ ingestion_response(aloc[p]).inserted_chunks = 0
            /\ ingestion_response(aloc[p]).item_ids = <<aloc[p].item_id>>
            /\ aloc[p].item_id \in existing_items(items, emails, AEmail(p))
            /\ ~aloc[p].called_provider
            /\ aloc[p].written \subseteq {"item_tags"}

C16_Witness ==
    \E p \in Procs :
        /\ ASkipped(p)
        /\ aloc[p].written = {"item_tags"}
        /\ items[aloc[p].item_id].content_hash = email_hash(AEmail(p))

\* the backup router's early dedup: 200 {ok, dedup, n_chunks 0} with a
\* document id of the request's account, and the request opened no write
\* set: it never reached the tag, chunk or embedding steps
BackupDedupFrame ==
    \A p \in Procs :
        (bpc[p] = "done" /\ Val(bresp[p]).dedup) =>
            /\ Val(bresp[p]).status = 200 /\ Val(bresp[p]).ok
            /\ Val(bresp[p]).n_chunks = 0
            /\ Val(bresp[p]).document_id # None
            /\ Val(Val(bresp[p]).document_id)[1] = BDoc(p).account_id
            /\ btx[p] = None

----------------------------------------------------------------------------
(* The document vector of the backup router                                *)

\* v is the arithmetic mean of the embeddings of the chunk rows: there is
\* at least one row and, in every component, v[i] * n = the sum over the rows
IsMeanOfChunks(v, rows) ==
    /\ rows # <<>>
    /\ Len(v) = Len(rows[1].embedding)
    /\ \A i \in 1..Len(v) :
        v[i].num * Len(rows) = v[i].den * SumSeq([j \in 1..Len(rows) |-> rows[j].embedding[i]])

HasEmbedding(k) == documents[k] # None /\ Val(documents[k]).embedding # None

SeedVectors(k) ==
    {as_doc_vector(embed_text(seed_text(doc))) :
        doc \in {d \in GmailDocs : KeyOf(d) = k
                    /\ content_hash_of(d) = Val(documents[k]).content_hash}}

----------------------------------------------------------------------------
(* Tag extraction                                                          *)

\* the run met one of the failures: retries exhausted, another exception
\* of the call, or a reply the try body cannot read
TagFailure ==
    \/ gseen \in {"rate_limit", "error"}
    \/ /\ greply # None
       /\ \/ Val(greply).kind \in {"unparseable", "bracketed", "no_content"}
          \/ Val(greply).nonstring

\* C18: the tag extractor returns at most 5 tags; on an unparseable reply,
\* on rate-limit retries exhausted after RETRY_MAX and on any other
\* exception it returns the empty list; no run leaves it with an exception,
\* and the ingest goes on to attach the tags the request came with.
C18_TagsCappedAndSoft ==
    /\ gpc # "aborted"
    /\ gextra # None =>
        /\ Len(Val(gextra)) <= 5
        /\ TagFailure => Val(gextra) = <<>>
    /\ gseen = "rate_limit" => (gattempt = RETRY_MAX /\ gcalls = RETRY_MAX + 1)
    /\ gpc = "attach" =>
        /\ gextra # None
        /\ Range(GIn.tags) \subseteq Range(gtags)
        /\ TagFailure => gtags = GIn.tags

C18_Witness ==
    /\ gpc = "attach"
    /\ gseen = "rate_limit"
    /\ gcalls = RETRY_MAX + 1
    /\ Val(gextra) = <<>>
    /\ gtags = GIn.tags
    /\ GIn.tags # <<>>

----------------------------------------------------------------------------
(* /ask without documents                                                  *)

\* the request was answered in summary mode (any mode but "email") over an
\* empty retrieval set
SummaryOverNothing == kpc = "responded" /\ KReq.mode # "email" /\ kdocs = <<>> /\ KResp.status = 200

NoMatchSentence(req) ==
    IF lang_cfg_of(req) = "turkish_unaccent" THEN "Eslesen dokuman bulunamadi."
    ELSE "No matching documents found."

\* C19: a summary-mode /ask whose retrieval set is empty answers with the
\* no-matching-documents sentence in the request's language, with used_ids
\* and sources empty, and has requested no chat completion.
C19_EmptyRetrievalSkipsChat ==
    SummaryOverNothing =>
        /\ KResp.answer = <<NoMatchSentence(KReq)>>
        /\ KResp.used_ids = <<>>
        /\ KResp.sources = <<>>
        /\ kchat = 0

C19_Witness ==
    /\ SummaryOverNothing
    /\ KReq.oai
    /\ KReq.language = L_auto
    /\ KReq.query.turkish_letter
    /\ KResp.answer = <<"Eslesen dokuman bulunamadi.">>
    /\ kchat = 0

----------------------------------------------------------------------------
(* The exists probe of the backup router                                   *)

ProbeHashes == {content_hash_of(d) : d \in GmailDocs}
ProbeAccounts == Accounts \cup {"u3"}

\* the store holds a document with hash h, in the source of account a or,
\* with global_search, in any source
HoldsHash(h, a, g) ==
    \E k \in DocKeys :
        documents[k] # None /\ Val(documents[k]).content_hash = h /\ (g \/ k[1] = a)

ProbeAnswersStore ==
    \A h \in ProbeHashes, a \in ProbeAccounts, g \in BOOLEAN :
        gmail_exists(Some(h), Some(a), g, sources, documents)
            = IF HoldsHash(h, a, g) THEN 200 ELSE 404

\* the step in which a request p answers 200: the commit of its writes, or
\* the early dedup
Answers200(p) == bpc[p] \in {"commit", "begin"} /\ bpc'[p] = "done"

ProbeFollowsIngest ==
    \A p \in Procs :
        Answers200(p) =>
            LET doc == BDoc(p)
                old == documents[KeyOf(doc)]
            IN  /\ gmail_exists(Some(content_hash_of(doc)), Some(doc.account_id), FALSE,
                                sources', documents') = 200
                /\ (/\ bpc[p] = "commit"
                    /\ old # None
                    /\ Val(old).content_hash # content_hash_of(doc)) =>
                        gmail_exists(Some(Val(old).content_hash), Some(doc.account_id), FALSE,
                                     sources', documents') = 404

\* C20: the probe answers 200 exactly when the store holds a document with
\* the hash (in the account's source, or in any source with global_search)
\* and 404 otherwise; right after a successful ingest of hash h into account
\* a it answers 200 for (h, a), and right after a re-ingest of the document
\* with another hash it answers 404 for the old hash.
C20_ProbeTracksStore == []ProbeAnswersStore /\ [][ProbeFollowsIngest]_vars

C20_Witness ==
    \E p \in Procs :
        /\ bpc[p] = "done"
        /\ ~Val(bresp[p]).dedup
        /\ bsnap[p] # None
        /\ LET doc == BDoc(p)
               old == Val(bsnap[p]).documents[KeyOf(doc)]
           IN  /\ old # None
               /\ Val(old).content_hash # content_hash_of(doc)
               /\ gmail_exists(Some(Val(old).content_hash), Some(doc.account_id), FALSE,
                               sources, documents) = 404
               /\ gmail_exists(Some(content_hash_of(doc)), Some(doc.account_id), FALSE,
                               sources, documents) = 200
               /\ gmail_exists(Some(content_hash_of(doc)), Some("u2"), FALSE,
                               sources, documents) = 404
               /\ gmail_exists(Some(content_hash_of(doc)), Some("u2"), TRUE,
                               sources, documents) = 200

----------------------------------------------------------------------------
(* Tag boost                                                               *)

\* the complete results the query may produce for the request being served
FullResults ==
    {ordered(o) : o \in Orderings(ranked(scored(corpus, SReq), SQueryText))}

\* the document carries a tag that the request lists in boost_tags
CarriesBoostTag(d) ==
    /\ SReq.boost_tags # None
    /\ \E t \in d.tags : \E n \in 1..Len(Val(SReq.boost_tags)) :
          Lower(t) = Lower(Val(SReq.boost_tags)[n])

\* a is a listed-tag document and b is not, and their other score
\* components are equal (and finite)
BoostedPair(a, b) ==
    /\ a.base.k = "num" /\ b.base = a.base
    /\ CarriesBoostTag(a) /\ ~CarriesBoostTag(b)

HitDoc(h) == CHOOSE d \in corpus : d.id = h.id

Unboosted(req) == [req EXCEPT !.boost_tags = None]

\* C21: of two matching documents with equal bm25, vector and decay
\* components of which exactly one carries a tag of boost_tags, the tagged
\* one comes strictly before the other, in every complete result and in the
\* hits of the response; the documents that match are the same with and
\* without boost_tags.
C21_BoostRanksTaggedFirst ==
    (Retrieved /\ SQueryText # <<>> /\ SResp.error = None) =>
        /\ \A r \in FullResults : \A i, j \in 1..Len(r) :
              BoostedPair(r[i], r[j]) => i < j
        /\ \A i, j \in 1..Len(SResp.hits) :
              BoostedPair(HitDoc(SResp.hits[i]), HitDoc(SResp.hits[j])) => i < j
        /\ {d.id : d \in ranked(scored(corpus, SReq), SQueryText)}
              = {d.id : d \in ranked(scored(corpus, Unboosted(SReq)), SQueryText)}

C21_Witness ==
    /\ Retrieved
    /\ SReq.boost_tags # None
    /\ \E i, j \in 1..Len(SResp.hits) :
        /\ i < j
        /\ SResp.hits[i].id = "d5" /\ SResp.hits[j].id = "d1"
        /\ BoostedPair(HitDoc(SResp.hits[i]), HitDoc(SResp.hits[j]))
        /\ HitDoc(SResp.hits[j]).ts > HitDoc(SResp.hits[i]).ts

----------------------------------------------------------------------------
(* Embedding retries                                                       *)

\* the class or message the retry is for: rate limit, or one of the four
\* transient marks anywhere in the message, in any case
RetriedKind(cls, msg) ==
    \/ cls = "RateLimitError"
    \/ \E x \in TransientMarks : Contains(Lower(msg), x)

EmbedBounded ==
    /\ ecalls <= RETRY_MAX + 1
    /\ eattempt <= RETRY_MAX
    /\ Len(esleeps) = eattempt
    /\ \A a \in 1..Len(esleeps) : esleeps[a] = RETRY_BASE_SLEEP * Pow2(a - 1)
    /\ epc = "call" => /\ ecalls = eattempt
                       /\ Len(batch_of(ein, ek)) \in 1..EMBED_BATCH
    /\ epc = "raised" =>
          \/ ~RetriedKind(Val(eres).exc, Val(eres).val)
          \/ ecalls = RETRY_MAX + 1

\* a failed provider call either sleeps RETRY_BASE_SLEEP * 2^attempt and
\* calls again for the same batch, or raises at once without a sleep
EmbedFailedCallStep ==
    (epc = "call" /\ ecalls' = ecalls + 1 /\ eout' = eout) =>
        \/ /\ epc' = "call" /\ ek' = ek
           /\ eattempt < RETRY_MAX
           /\ eattempt' = eattempt + 1
           /\ esleeps' = Append(esleeps, RETRY_BASE_SLEEP * Pow2(eattempt))
           /\ RetriedKind(Val(eerr').cls, Val(eerr').msg)
        \/ /\ epc' = "raised"
           /\ esleeps' = esleeps
           /\ Val(eres') = Exc(Val(eerr').cls, Val(eerr').msg)
           /\ RetriedKind(Val(eerr').cls, Val(eerr').msg) => eattempt = RETRY_MAX

\* C22: for each batch of at most EMBED_BATCH texts at most RETRY_MAX + 1
\* provider calls are made; a rate-limit or transient error is retried after
\* a sleep of RETRY_BASE_SLEEP * 2^attempt, attempt = 0, 1, ...; any other
\* error is raised at once, and after RETRY_MAX retries the error is raised.
C22_EmbedRetryBounded == []EmbedBounded /\ [][EmbedFailedCallStep]_vars

\* the last allowed call of the second batch failed with a rate limit
C22_Witness ==
    /\ epc = "raised"
    /\ ek = EMBED_BATCH
    /\ ecalls = RETRY_MAX + 1
    /\ esleeps = <<1, 2, 4, 8>>
    /\ Val(eres).exc = "RateLimitError"
    /\ Len(eout) = EMBED_BATCH

----------------------------------------------------------------------------
(* Chunker output                                                          *)

\* characters of the body that both chunks hold; the characters of a body
\* of ChunkBodies are all different, "\n" is what the merge joins with
SharedChars(a, b) == Cardinality((Range(a) \cap Range(b)) \ {"\n"})

ChunksWithin(out, overlap) ==
    /\ \A k \in 1..(Len(out) - 1) : SharedChars(out[k], out[k + 1]) <= overlap
    /\ \A k \in 1..Len(out) : Len(out[k]) >= CHUNK_MIN_KEEP

\* the step-by-step loop returns what chunk_text returns
ChunkLoopIsChunkText ==
    (cpc = "done" /\ ckind = "window" /\ ccfg = DefaultChunkConfig) =>
        \E body \in ChunkBodies : Strip(body) = cbody /\ cout = chunk_text(body)

\* C23 as stated: for every body and every chunker output with at least two
\* chunks, adjacent chunks share at most CHUNK_OVERLAP characters of the body
\* and every chunk is at least CHUNK_MIN_KEEP characters long.
C23_EveryChunkerOutput ==
    (cpc = "done" /\ Len(cout) >= 2) => ChunksWithin(cout, ccfg.overlap)

\* C23 (amended): the same for every output of the char-window chunker
\* _chunk_text, under every setting with 0 <= CHUNK_OVERLAP < CHUNK_TARGET.
C23_WindowChunkerOutput ==
    (cpc = "done" /\ ckind = "window") => ChunksWithin(cout, ccfg.overlap)

\* two chunks that share exactly the overlap, after a short window was merged
C23_Witness ==
    /\ cpc = "done" /\ ckind = "window"
    /\ Len(cout) >= 2
    /\ Len(cwin) > Len(cout)
    /\ ccfg.overlap > 0
    /\ \E k \in 1..(Len(cout) - 1) : SharedChars(cout[k], cout[k + 1]) = ccfg.overlap

----------------------------------------------------------------------------
(* Termination of the window loop                                          *)

ChunkConfigOk == 0 <= ccfg.overlap /\ ccfg.overlap < ccfg.target

\* an iteration either moves the window start forward, its end not yet at
\* the end of the body, or is the last one, its end at the end of the body
WindowAdvances ==
    (cpc = "window" /\ ChunkConfigOk) =>
        \/ /\ cpc' = "window"
           /\ ci' > ci
           /\ ci + ccfg.target < Len(cbody)
        \/ /\ cpc' = "done"
           /\ ci + ccfg.target >= Len(cbody)

\* C27: with 0 <= CHUNK_OVERLAP < CHUNK_TARGET the window loop ends on every
\* body: the window start grows on every iteration until the window end
\* reaches the end of the body.
C27_WindowLoopTerminates ==
    /\ [][WindowAdvances]_varsC
    /\ (cpc = "window" /\ ChunkConfigOk) ~> (cpc = "done")

\* a loop of three iterations and more has ended
C27_Witness ==
    /\ cpc = "done" /\ ckind = "window"
    /\ ChunkConfigOk
    /\ Len(cwin) >= 3
    /\ ci > 0

----------------------------------------------------------------------------
(* Tag normalization                                                       *)

\* non-empty, trimmed, lowercase, no duplicates
IsNormalTagList(y) ==
    /\ \A i \in 1..Len(y) : y[i] # <<>> /\ Strip(y[i]) = y[i] /\ Lower(y[i]) = y[i]
    /\ \A i, j \in 1..Len(y) : y[i] = y[j] => i = j

\* the trimmed lowercase form of x[i]
TagKey(x, i) == Lower(Strip(x[i]))

FirstAt(x, t) == CHOOSE i \in 1..Len(x) : TagKey(x, i) = t /\ \A j \in 1..(i - 1) : TagKey(x, j) # t

\* y holds the non-empty keys of x, each once, in the order they first occur
InFirstOccurrenceOrder(x, y) ==
    /\ Range(y) = {TagKey(x, i) : i \in 1..Len(x)} \ {<<>>}
    /\ \A i, j \in 1..Len(y) : i < j => FirstAt(x, y[i]) < FirstAt(x, y[j])

\* C24: normalize(normalize(x)) = normalize(x); the output holds only
\* non-empty, trimmed, lowercase tags, no duplicates, in first-occurrence
\* order; the tags an ingest attaches to the document are lowercase, trimmed
\* and unique.
C24_TagsNormalized ==
    /\ gin # None =>
          /\ normalize_tags(GIn.tags) = GIn.tags
          /\ IsNormalTagList(GIn.tags)
          /\ InFirstOccurrenceOrder(GIn.raw, GIn.tags)
    /\ gpc = "attach" =>
          /\ IsNormalTagList(gtags)
          /\ normalize_tags(gtags) = gtags
          /\ InFirstOccurrenceOrder(GIn.raw \o Val(gextra), gtags)

\* " a" after "A" is dropped, and the chat model's tags are merged in
C24_Witness ==
    /\ gpc = "attach"
    /\ GIn.raw = <<TagA, TagLa>>
    /\ GIn.tags = <<<<"a">>>>
    /\ Val(gextra) # <<>>
    /\ Len(gtags) > 1

----------------------------------------------------------------------------
(* The decision of the regex fallback                                      *)

LoweredWords(text) == [i \in 1..Len(text) |-> Lower(text[i])]

\* one of the sender/domain patterns matches the text: X'dan gelen,
\* X'den gelen, from X, X@Y, X email, X emailleri|mailler
SenderDetected(text) ==
    LET toks == LoweredWords(text)
    IN  first_match(<<search_gelen(toks, W_dan), search_gelen(toks, W_den),
                      search_after(toks, W_from, AddrChars),
                      search_address(toks),
                      search_before(toks, AddrChars, {W_email}),
                      search_before(toks, AddrChars, {W_emailleri, W_mailler})>>).found

\* the topic cue matches and captures a phrase
TopicDetected(text) == search_topic(LoweredWords(text)) # <<>>

FallbackDecides(text, out) ==
    /\ ~out.raised
    /\ (SenderDetected(text) /\ TopicDetected(text)) => out.intent = Some("search.find")
    /\ (SenderDetected(text) /\ ~TopicDetected(text)) => out.intent = Some("search.latest_from")
    /\ ~SenderDetected(text) => (out.intent = None /\ out.params = EmptyDict)

\* C25: on the fallback path a detected sender or domain with a detected
\* topic gives search.find, a detected sender or domain without a topic
\* gives search.latest_from, and no detected sender or domain gives a null
\* intent with empty params.
C25_FallbackDecision ==
    (rout # None /\ ~RIn.oai) => FallbackDecides(RIn.text, ROut)

\* the same for the fallback of backup/agents/intent_llm.py alone
BackupFallbackDecision ==
    (rout # None /\ ~RIn.oai /\ RIn.version = "backup") => FallbackDecides(RIn.text, ROut)

----------------------------------------------------------------------------
(* Deduplication by (title, preview)                                       *)

Candidates == ranked(scored(corpus, SReq), SQueryText)

\* r has one row for every pair of the candidates, no pair twice, and no
\* candidate of the same pair sorts before the row kept for it (final_score
\* DESC, ts DESC, length ASC)
Deduplicated(r) ==
    /\ \A i, j \in 1..Len(r) : pair_key(r[i]) = pair_key(r[j]) => i = j
    /\ {pair_key(r[i]) : i \in 1..Len(r)} = {pair_key(c) : c \in Candidates}
    /\ \A i \in 1..Len(r) :
          /\ r[i] \in Candidates
          /\ \A c \in Candidates : pair_key(c) = pair_key(r[i]) => ~RowBefore(c, r[i])

\* the request asks for the whole result in one page
Unpaginated == applied_offset(SReq) = 0 /\ applied_top_k(SReq) >= Cardinality(Candidates)

\* C26: in the complete result no two hits have the same (title, preview)
\* pair, NULL counting as the empty string; the candidate kept for a pair
\* has the highest final score, ties broken by newer ts and then by shorter
\* plain_text.
C26_DedupKeepsBest ==
    (Retrieved /\ SQueryText # <<>> /\ SResp.error = None) =>
        /\ \A r \in FullResults : Deduplicated(r)
        /\ \A i, j \in 1..Len(SResp.hits) :
              pair_key(HitDoc(SResp.hits[i])) = pair_key(HitDoc(SResp.hits[j])) => i = j
        /\ Unpaginated =>
              \E r \in FullResults :
                  /\ Len(r) = Len(SResp.hits)
                  /\ \A i \in 1..Len(r) : SResp.hits[i].id = r[i].id

\* with boost_tags the tagged d5 (title '') is kept and the newer d7 (title
\* NULL) is dropped, and the tagged d6 is kept for its pair instead of d1
C26_Witness ==
    /\ Retrieved
    /\ Unpaginated
    /\ {c.id : c \in Candidates} \cap {"d1", "d2", "d5", "d6", "d7"} = {"d1", "d5", "d6", "d7"}
    /\ {SResp.hits[i].id : i \in 1..Len(SResp.hits)} \cap {"d1", "d5", "d6", "d7"} = {"d5", "d6"}

----------------------------------------------------------------------------
(* Paging through a result                                                 *)

PageCandidates == ranked(scored(pcorpus, PReq), Strip(PReq.query))

PageDoc(id) == CHOOSE d \in pcorpus : d.id = id

\* every pair of the candidates was returned, and none twice
CoveredOnce ==
    /\ {pair_key(PageDoc(pgot[i])) : i \in 1..Len(pgot)} = {pair_key(c) : c \in PageCandidates}
    /\ \A i, j \in 1..Len(pgot) :
          pair_key(PageDoc(pgot[i])) = pair_key(PageDoc(pgot[j])) => i = j

PagedThrough == ppc = "done" /\ ~perr /\ Strip(PReq.query) # <<>>

\* C29: on an unchanging store, following next_offset from offset 0 until
\* has_more is false returns every deduplicated match exactly once, for
\* every limit.
C29_PagingCoversOnce == PagedThrough => CoveredOnce

\* no two candidates are equal in final_score, ts and length
StrictlyOrdered(S) == \A a, b \in S : a # b => (RowBefore(a, b) \/ RowBefore(b, a))

\* the same when the ORDER BY of the query leaves the database no choice
PagingCoversOnceWhenOrdered ==
    (PagedThrough /\ StrictlyOrdered(PageCandidates)) => CoveredOnce

\* the loop never asks for a page past the end: it ends after at most one
\* page per deduplicated match
PagingLoopIsBounded ==
    ppc = "fetch" => Len(pgot) <= Cardinality({pair_key(c) : c \in PageCandidates})

----------------------------------------------------------------------------
(* Ingest again after a failed ingest                                      *)

\* q failed after upsert_email had inserted the item of its email, and p, an
\* ingest of the identical email, began after the last write of q
RetryOfFailed(p, q) ==
    /\ p # q
    /\ apc[q] = "error"
    /\ "items" \in aloc[q].written
    /\ areq[p] # None
    /\ AEmail(p) = AEmail(q)
    /\ asnap[p] # None

\* C28: an ingest that follows a failed ingest of the identical document is
\* not answered as a duplicate (it chunks and embeds again and leaves the
\* document with its full chunk set): no request that retries a failed ingest
\* ends on the skip_embedding path of upsert_email (app router).
C28_RetryRebuildsChunks ==
    \A p, q \in Procs : RetryOfFailed(p, q) => ~ASkipped(p)

\* what the retry leaves behind when it is answered as a duplicate: the item
\* of the failed ingest still lacks chunks of the email
RetryLeavesChunksMissing ==
    \E p, q \in Procs :
        /\ RetryOfFailed(p, q)
        /\ ASkipped(p)
        /\ aloc[p].item_id = aloc[q].item_id
        /\ ExpectedChunks(AEmail(p)) # {}
        /\ ChunksOfItem(chunks, aloc[p].item_id) = {}

\* the backup router, whose failed transaction is rolled back: at the step
\* that answers a request with dedup, a committed document of its
\* content_hash exists, with the chunks of its text stored whenever the
\* chunker returns any
BackupDedupStep ==
    \A p \in Procs :
        (bpc[p] # "done" /\ bpc'[p] = "done" /\ Val(bresp'[p]).dedup) =>
            LET k == Val(Val(bresp'[p]).document_id)
            IN  /\ documents[k] # None
                /\ Val(documents[k]).content_hash = content_hash_of(BDoc(p))
                /\ chunk_text(Val(documents[k]).plain_text) # <<>> =>
                      [i \in 1..Len(document_chunks[k]) |-> document_chunks[k][i].text]
                          = chunk_text(Val(documents[k]).plain_text)

BackupRetryRebuildsChunks == [][BackupDedupStep]_vars

----------------------------------------------------------------------------
(* Ord values of the stored chunks                                         *)

\* the chunk rows of item i, in insertion order
RowsOfItem(i) == SelectSeq(chunks, LAMBDA c : c.item_id = i)

\* p ended without an exception on the insert or update path, and no other
\* request wrote to the store since p began
IngestedAlone(p) ==
    /\ apc[p] = "done"
    /\ ~aloc[p].skip_embedding
    /\ asnap[p] # None

\* C30: after a successful non-dedup ingest that reports n chunks the stored
\* chunks of the document have the ord values 0, 1, ..., n-1, each once, one
\* stored chunk with one embedding per chunker output, in chunker order
\* (app router: n is inserted_chunks of the response).
C30_ChunkOrdsContiguous ==
    \A p \in Procs :
        IngestedAlone(p) =>
            LET rows == RowsOfItem(aloc[p].item_id)
                made == create_chunks(AEmail(p).subject, cleaned_body_of(AEmail(p)))
                n == ingestion_response(aloc[p]).inserted_chunks
            IN  /\ Len(rows) = n
                /\ \A j \in 1..Len(rows) : rows[j].ord = j - 1
                /\ Len(made) = n
                /\ \A j \in 1..n : /\ rows[j].text = made[j].text
                                    /\ rows[j].embedding = embed_text(made[j].text)

\* what holds in the app router when no chunk was skipped: the stored rows are
\* the chunker's output with the ord values create_chunks gave them
ChunkOrdsAsCreated ==
    \A p \in Procs :
        (IngestedAlone(p) /\ ~aloc[p].chunk_failed) =>
            LET rows == RowsOfItem(aloc[p].item_id)
                made == create_chunks(AEmail(p).subject, cleaned_body_of(AEmail(p)))
            IN  /\ Len(rows) = Len(made)
                /\ aloc[p].inserted_chunks = Len(made)
                /\ \A j \in 1..Len(made) : /\ rows[j].ord = made[j].ord
                                            /\ rows[j].text = made[j].text

\* the ord values alone, for a request none of whose chunks was skipped
AppOrdsFromZero ==
    \A p \in Procs :
        (IngestedAlone(p) /\ ~aloc[p].chunk_failed) =>
            \A j \in 1..Len(RowsOfItem(aloc[p].item_id)) :
                RowsOfItem(aloc[p].item_id)[j].ord = j - 1

\* the backup router: the transaction that commits with chunks holds the rows
\* 0 .. n_chunks-1 of the chunker's output, in order
BackupCommitStep ==
    \A p \in Procs :
        (bpc[p] = "commit" /\ bpc'[p] = "done" /\ BTx(p).n_chunks > 0) =>
            LET rows == document_chunks'[KeyOf(BDoc(p))]
                made == chunk_text(BDoc(p).plain_text)
            IN  /\ Val(bresp'[p]).n_chunks = Len(made)
                /\ Len(rows) = Len(made)
                /\ \A j \in 1..Len(rows) : /\ rows[j].ord = j - 1
                                            /\ rows[j].text = made[j]
                                            /\ rows[j].embedding = embed_text(made[j])

BackupChunkOrdsContiguous == [][BackupCommitStep]_vars

====
